---- MODULE Spec2Model ----
(***************************************************************************)
(* Viewing-appointment scheduling engine of the property marketplace       *)
(* backend: the schedules table, the ScheduleModel operations (Insert,     *)
(* Get, UpdateStatus, Delete, Reschedule) and the HTTP handlers that call  *)
(* them.  Every SQL statement is one atomic step (the code opens no        *)
(* transaction, so PostgreSQL runs each statement on its own); a handler   *)
(* is a sequence of such steps run by one worker, and workers interleave.  *)
(* Instants are minutes on one clock; durations are minutes.               *)
(***************************************************************************)
EXTENDS Integers, FiniteSets, Sequences, TLC

\* ------------------------------------------------------------------ bounds
\* Updates (reschedules and status changes) in the workload that follows one
\* appointment through its life.
LifeUpdates == 4
\* Appointments created, and updates, in the workload of several appointments.
MaxAppointments == 2
SharedUpdates == 2
\* Rows deleted in the workloads that delete.
MaxDeletes == 1
\* Instants a request may name: 0, 120 and 180, 240, ..., 180 + 60 * MaxSlot
\* (one fewer where several appointments are updated together).
MaxSlot == 1
\* Hours the clock advances in the workload where time passes.
MaxClock == 2

\* ------------------------------------------------------- program constants
MaxReschedules == 3
MaxDurationMinutes == 480
DefaultDurationMinutes == 60
MinNoticeMinutes == 120
MaxNotesLen == 1000
\* A nil *time.Time / SQL NULL timestamp.
NULL == -1
\* The zero time.Time (a request body without scheduled_at).
ZeroTime == -2
\* Ids below 1 are no rows (Get, Delete: id < 1).
NoId == 0

StatusCreated == 201
StatusOK == 200
StatusBadRequest == 400
StatusForbidden == 403
StatusNotFound == 404
StatusConflict == 409
StatusUnprocessable == 422
StatusServerError == 500

\* --------------------------------------------------------------- the world
Workers == {1, 2}
\* users.id of the principals; 1 and 2 have role "user", 3 and 4 role "agent".
Principals == {1, 2, 3, 4}
Role(u) == IF u \in {3, 4} THEN "agent" ELSE "user"
\* properties.id and the agent each property is assigned to.
Properties == {1, 2}
PropertyAgent(p) == IF p = 1 THEN 3 ELSE 4

\* 0 is never in the future, 120 is in the future and within the notice of two
\* hours until the clock passes it, the others are beyond the notice.
Instants(slots) == {0, 120} \cup {180 + 60 * k : k \in 0..slots}
ShortNote == [text |-> "first viewing", len |-> 13]
LongNote == [text |-> "a note of 1001 characters", len |-> 1001]
NoNote == [text |-> "", len |-> 0]
\* A nil *string (a reschedule body without notes).
NoNotes == [text |-> "", len |-> NULL]

ActiveStatuses == {"pending", "confirmed"}
TerminalStatuses == {"cancelled", "completed"}
ValidStatuses == {"pending", "confirmed", "cancelled", "completed"}

VARIABLES
    schedules,   \* the schedules table: id -> row
    nextId,      \* the bigserial sequence of schedules.id
    now,         \* time.Now() / NOW()
    req,         \* per worker: the request in flight and the handler's locals
    resp,        \* the response a handler has just produced, until it is sent
    scope        \* the workload: the appointments, updates, deletes, instants
                 \* and hours it admits

vars == <<schedules, nextId, now, req, resp, scope>>

\* ------------------------------------------------------------- validator
NoErrors == <<>>
\* A faulty AddError: the last message recorded for a key wins.
AddErrorOverwrites(errors, key, message) ==
    (key :> message) @@ errors
\* AddError: the first message recorded for a key wins.
AddError(errors, key, message) ==
    IF key \in DOMAIN errors THEN errors ELSE errors @@ (key :> message)
Check(errors, ok, key, message) ==
    IF ok THEN errors ELSE AddError(errors, key, message)
Valid(errors) == DOMAIN errors = {}

MsgMaxReschedules == "maximum reschedule limit (3) reached"
MsgNotEditable == "can only reschedule pending or confirmed appointments"
MsgFuture == "must be in the future"
MsgProvided == "must be provided"
MsgSameTime == "new time must be different from current time"
MsgMinNotice == "must reschedule at least 2 hours before appointment"
MsgPositive == "must be positive"
MsgTooLong == "must not exceed 8 hours"
MsgStatus == "must be pending, confirmed, cancelled, or completed"
MsgNotes == "must not exceed 1000 characters"
MsgBooked == "this time slot is already booked"
MsgAgentStatus == "must be confirmed, cancelled, or completed"

\* ValidateSchedule, in the order of its checks.
ValidateSchedule(s, t) ==
    LET e1 == Check(NoErrors, s.property_id > 0, "property_id", MsgProvided)
        e2 == Check(e1, s.user_id > 0, "user_id", MsgProvided)
        e3 == Check(e2, s.agent_id > 0, "agent_id", MsgProvided)
        e4 == Check(e3, s.scheduled_at # ZeroTime, "scheduled_at", MsgProvided)
        e5 == Check(e4, s.scheduled_at > t, "scheduled_at", MsgFuture)
        e6 == Check(e5, s.duration_minutes > 0, "duration_minutes", MsgPositive)
        e7 == Check(e6, s.duration_minutes <= MaxDurationMinutes,
                    "duration_minutes", MsgTooLong)
        e8 == Check(e7, s.status \in ValidStatuses, "status", MsgStatus)
    IN  Check(e8, s.notes.len <= MaxNotesLen, "notes", MsgNotes)

\* A faulty ValidateReschedule: the status of the schedule is not checked.
ValidateRescheduleAnyStatus(s, newScheduledAt, newDuration, t) ==
    LET e1 == Check(NoErrors, s.reschedule_count < MaxReschedules,
                    "reschedule", MsgMaxReschedules)
        e3 == Check(e1, newScheduledAt > t, "scheduled_at", MsgFuture)
        e4 == Check(e3, newScheduledAt # s.scheduled_at, "scheduled_at", MsgSameTime)
        e5 == Check(e4, t < s.scheduled_at - MinNoticeMinutes,
                    "reschedule", MsgMinNotice)
        e6 == Check(e5, newDuration > 0, "duration_minutes", MsgPositive)
    IN  Check(e6, newDuration <= MaxDurationMinutes, "duration_minutes", MsgTooLong)
\* A faulty ValidateReschedule: the notice of two hours is counted to the new
\* time.
ValidateRescheduleNoticeOfNewTime(s, newScheduledAt, newDuration, t) ==
    LET e1 == Check(NoErrors, s.reschedule_count < MaxReschedules,
                    "reschedule", MsgMaxReschedules)
        e2 == Check(e1, s.status \in ActiveStatuses, "status", MsgNotEditable)
        e3 == Check(e2, newScheduledAt > t, "scheduled_at", MsgFuture)
        e4 == Check(e3, newScheduledAt # s.scheduled_at, "scheduled_at", MsgSameTime)
        e5 == Check(e4, t < newScheduledAt - MinNoticeMinutes,
                    "reschedule", MsgMinNotice)
        e6 == Check(e5, newDuration > 0, "duration_minutes", MsgPositive)
    IN  Check(e6, newDuration <= MaxDurationMinutes, "duration_minutes", MsgTooLong)
\* A faulty ValidateReschedule: the new time may be the current time.
ValidateRescheduleSameTimeAllowed(s, newScheduledAt, newDuration, t) ==
    LET e1 == Check(NoErrors, s.reschedule_count < MaxReschedules,
                    "reschedule", MsgMaxReschedules)
        e2 == Check(e1, s.status \in ActiveStatuses, "status", MsgNotEditable)
        e3 == Check(e2, newScheduledAt > t, "scheduled_at", MsgFuture)
        e5 == Check(e3, t < s.scheduled_at - MinNoticeMinutes,
                    "reschedule", MsgMinNotice)
        e6 == Check(e5, newDuration > 0, "duration_minutes", MsgPositive)
    IN  Check(e6, newDuration <= MaxDurationMinutes, "duration_minutes", MsgTooLong)
\* ValidateReschedule, in the order of its checks; t is time.Now().
ValidateReschedule(s, newScheduledAt, newDuration, t) ==
    LET e1 == Check(NoErrors, s.reschedule_count < MaxReschedules,
                    "reschedule", MsgMaxReschedules)
        e2 == Check(e1, s.status \in ActiveStatuses, "status", MsgNotEditable)
        e3 == Check(e2, newScheduledAt > t, "scheduled_at", MsgFuture)
        e4 == Check(e3, newScheduledAt # s.scheduled_at, "scheduled_at", MsgSameTime)
        e5 == Check(e4, t < s.scheduled_at - MinNoticeMinutes,
                    "reschedule", MsgMinNotice)
        e6 == Check(e5, newDuration > 0, "duration_minutes", MsgPositive)
    IN  Check(e6, newDuration <= MaxDurationMinutes, "duration_minutes", MsgTooLong)

\* ------------------------------------------------------------ the table
Exists(id) == id \in DOMAIN schedules

\* Faulty conflict queries of Insert: only a row that starts when the window
\* starts is counted; a row that ends when the window starts, or starts when it
\* ends, is counted too; rows of every status are counted.
InsertConflictsSameStart(agent, startAt, endAt) ==
    {i \in DOMAIN schedules :
        /\ schedules[i].agent_id = agent
        /\ schedules[i].status \in ActiveStatuses
        /\ schedules[i].scheduled_at = startAt}
InsertConflictsClosed(agent, startAt, endAt) ==
    {i \in DOMAIN schedules :
        /\ schedules[i].agent_id = agent
        /\ schedules[i].status \in ActiveStatuses
        /\ schedules[i].scheduled_at <= endAt
        /\ schedules[i].scheduled_at + schedules[i].duration_minutes >= startAt}
InsertConflictsAnyStatus(agent, startAt, endAt) ==
    {i \in DOMAIN schedules :
        /\ schedules[i].agent_id = agent
        /\ schedules[i].scheduled_at < endAt
        /\ schedules[i].scheduled_at + schedules[i].duration_minutes > startAt}
\* The rows the conflict query of Insert counts.
InsertConflicts(agent, startAt, endAt) ==
    {i \in DOMAIN schedules :
        /\ schedules[i].agent_id = agent
        /\ schedules[i].status \in ActiveStatuses
        /\ schedules[i].scheduled_at < endAt
        /\ schedules[i].scheduled_at + schedules[i].duration_minutes > startAt}

\* A faulty conflict query of Reschedule: the row itself is counted.
RescheduleConflictsWithSelf(agent, id, startAt, endAt) ==
    {i \in DOMAIN schedules :
        /\ schedules[i].agent_id = agent
        /\ schedules[i].status \in ActiveStatuses
        /\ schedules[i].scheduled_at < endAt
        /\ schedules[i].scheduled_at + schedules[i].duration_minutes > startAt}
\* The rows the conflict query of Reschedule counts (id != $2).
RescheduleConflicts(agent, id, startAt, endAt) ==
    {i \in DOMAIN schedules :
        /\ schedules[i].agent_id = agent
        /\ i # id
        /\ schedules[i].status \in ActiveStatuses
        /\ schedules[i].scheduled_at < endAt
        /\ schedules[i].scheduled_at + schedules[i].duration_minutes > startAt}

\* CHECK constraints of the table: schedules_status_check, chk_reschedule_limit.
TableConstraints(row) ==
    /\ row.status \in ValidStatuses
    /\ row.reschedule_count <= MaxReschedules

\* A faulty INSERT: the notes column is not named and takes its default.
InsertedRowWithoutNotes(s, id, t) ==
    [id |-> id, property_id |-> s.property_id, user_id |-> s.user_id,
     agent_id |-> s.agent_id, scheduled_at |-> s.scheduled_at,
     duration_minutes |-> s.duration_minutes, status |-> s.status,
     notes |-> NoNote, reschedule_count |-> 0,
     original_scheduled_at |-> NULL, last_rescheduled_at |-> NULL,
     created_at |-> t, version |-> 1]
\* The row INSERT stores: the columns the statement names, reschedule_count 0,
\* the column defaults for the rest.
InsertedRow(s, id, t) ==
    [id |-> id, property_id |-> s.property_id, user_id |-> s.user_id,
     agent_id |-> s.agent_id, scheduled_at |-> s.scheduled_at,
     duration_minutes |-> s.duration_minutes, status |-> s.status,
     notes |-> s.notes, reschedule_count |-> 0,
     original_scheduled_at |-> NULL, last_rescheduled_at |-> NULL,
     created_at |-> t, version |-> 1]

\* A faulty SET clause of UpdateStatus: the version is left as it was.
StatusUpdatedRowSameVersion(row, status) ==
    [row EXCEPT !.status = status]
\* A faulty UpdateStatus: a pending row is not completed before it was
\* confirmed.
StatusUpdatedRowConfirmFirst(row, status) ==
    [row EXCEPT !.status = IF row.status = "pending" /\ status = "completed"
                           THEN row.status ELSE status,
                !.version = row.version + 1]
\* A faulty UpdateStatus: the row is written anew with the status, and the
\* track of its reschedules is lost.
StatusUpdatedRowLosesTrack(row, status) ==
    [row EXCEPT !.status = status, !.version = row.version + 1,
                !.reschedule_count = 0, !.original_scheduled_at = NULL,
                !.last_rescheduled_at = NULL]
\* The SET clause of UpdateStatus.
StatusUpdatedRow(row, status) ==
    [row EXCEPT !.status = status, !.version = row.version + 1]

\* Faulty SET clauses of Reschedule: the count runs down; the count is left
\* as it was.
RescheduledRowCountsDown(row, newScheduledAt, newDuration, previousAt, t) ==
    [row EXCEPT !.scheduled_at = newScheduledAt,
                !.duration_minutes = newDuration,
                !.reschedule_count = row.reschedule_count - 1,
                !.original_scheduled_at =
                    IF row.original_scheduled_at # NULL
                    THEN row.original_scheduled_at ELSE previousAt,
                !.last_rescheduled_at = t,
                !.version = row.version + 1]
RescheduledRowSameCount(row, newScheduledAt, newDuration, previousAt, t) ==
    [row EXCEPT !.scheduled_at = newScheduledAt,
                !.duration_minutes = newDuration,
                !.original_scheduled_at =
                    IF row.original_scheduled_at # NULL
                    THEN row.original_scheduled_at ELSE previousAt,
                !.last_rescheduled_at = t,
                !.version = row.version + 1]
\* A faulty UPDATE of Reschedule: the statement sets the time and the version
\* and leaves the duration, the count and the timestamps to a later statement.
RescheduledRowTimeOnly(row, newScheduledAt, newDuration, previousAt, t) ==
    [row EXCEPT !.scheduled_at = newScheduledAt,
                !.version = row.version + 1]
\* A faulty SET clause of Reschedule: original_scheduled_at is set by every
\* reschedule (no COALESCE).
RescheduledRowOverwritesOriginal(row, newScheduledAt, newDuration, previousAt, t) ==
    [row EXCEPT !.scheduled_at = newScheduledAt,
                !.duration_minutes = newDuration,
                !.reschedule_count = row.reschedule_count + 1,
                !.original_scheduled_at = previousAt,
                !.last_rescheduled_at = t,
                !.version = row.version + 1]
\* A faulty SET clause of Reschedule: last_rescheduled_at is not set.
RescheduledRowWithoutLast(row, newScheduledAt, newDuration, previousAt, t) ==
    [row EXCEPT !.scheduled_at = newScheduledAt,
                !.duration_minutes = newDuration,
                !.reschedule_count = row.reschedule_count + 1,
                !.original_scheduled_at =
                    IF row.original_scheduled_at # NULL
                    THEN row.original_scheduled_at ELSE previousAt,
                !.version = row.version + 1]
\* The SET clause of Reschedule; previousAt is the scheduled_at Reschedule read.
RescheduledRow(row, newScheduledAt, newDuration, previousAt, t) ==
    [row EXCEPT !.scheduled_at = newScheduledAt,
                !.duration_minutes = newDuration,
                !.reschedule_count = row.reschedule_count + 1,
                !.original_scheduled_at =
                    IF row.original_scheduled_at # NULL
                    THEN row.original_scheduled_at ELSE previousAt,
                !.last_rescheduled_at = t,
                !.version = row.version + 1]

\* Faulty WHERE clauses: the version is not compared; a row at least as new
\* as the version matches.
IdMatches(id, version) ==
    Exists(id)
VersionAtLeast(id, version) ==
    Exists(id) /\ schedules[id].version >= version
\* WHERE id = $n AND version = $m matches a row.
VersionMatches(id, version) ==
    Exists(id) /\ schedules[id].version = version


\* ------------------------------------------------------ workers' requests
NoRow ==
    [id |-> NoId, property_id |-> 0, user_id |-> 0, agent_id |-> 0,
     scheduled_at |-> NULL, duration_minutes |-> 0, status |-> "",
     notes |-> NoNote, reschedule_count |-> 0, original_scheduled_at |-> NULL,
     last_rescheduled_at |-> NULL, created_at |-> NULL, version |-> 0]

\* A worker with no request in flight; user is the principal of a request
\* (contextGetUser).
IdleReq ==
    [op |-> "none", pc |-> "idle", user |-> 0, id |-> NoId, at |-> NULL,
     dur |-> NULL, target |-> "", schedule |-> NoRow, current |-> NoRow]

\* Of a schedule a handler fetched, the fields it reads again: the version for
\* the conditional update, the old time and the references for the
\* notification; the reschedule count it was validated with.
Fetched(row) ==
    [NoRow EXCEPT !.id = row.id, !.version = row.version,
                  !.scheduled_at = row.scheduled_at, !.agent_id = row.agent_id,
                  !.property_id = row.property_id, !.user_id = row.user_id,
                  !.reschedule_count = row.reschedule_count]
\* Of the schedule Reschedule fetched, the fields its queries are given.
Current(row) ==
    [NoRow EXCEPT !.id = row.id, !.agent_id = row.agent_id,
                  !.scheduled_at = row.scheduled_at]

\* A notification: what it tells and how its background task has ended
\* ("none": no task; "queued": handed to app.background, not yet run).
NoEvent ==
    [type |-> "none", id |-> NoId, old |-> NULL, new |-> NULL, count |-> 0,
     outcome |-> "none"]
\* A response: the status code, the error and its messages, the schedule in
\* the body, the notification handed to the background task; seen is the
\* version the handler had read when it answered (0: none).
NoStats ==
    [total |-> 0, pending |-> 0, confirmed |-> 0, completed |-> 0, cancelled |-> 0]
\* list and stats are the body of an answer to a list or a stats request; notes
\* is the notes of the reschedule body the answer is given to.
NoResp ==
    [worker |-> 0, op |-> "none", id |-> NoId, code |-> 0, err |-> "",
     errors |-> NoErrors, body |-> NoRow, event |-> NoEvent, seen |-> 0,
     list |-> {}, stats |-> NoStats, notes |-> NoNotes]

Response(w, op, id, code, err) ==
    [NoResp EXCEPT !.worker = w, !.op = op, !.id = id, !.code = code, !.err = err]
\* failedValidationResponse
FailedValidation(w, op, id, err, errors) ==
    [Response(w, op, id, StatusUnprocessable, err) EXCEPT !.errors = errors]

\* The answer of a handler that has read its schedule.
Answer(w, code, err) ==
    [Response(w, req[w].op, req[w].id, code, err) EXCEPT
        !.seen = req[w].schedule.version]
AnswerConflict(w) ==
    [Answer(w, StatusUnprocessable, "ScheduleConflict") EXCEPT
        !.errors = AddError(NoErrors, "scheduled_at", MsgBooked)]

Idle(w) == req[w].pc = "idle"
\* The next request goes to the lowest idle worker (idle workers are alike).
CanBegin(w) ==
    /\ Idle(w)
    /\ resp = NoResp
    /\ \A v \in Workers : v < w => ~Idle(v)
At(w, pc) == req[w].pc = pc /\ resp = NoResp
\* No request is in flight.  A request has at most one writing step and reads
\* before and after it, so every table a request can meet while another is in
\* flight it can also meet between requests; the requests refused at their
\* first step, which write nothing, are issued between the others.
Quiet == \A w \in Workers : Idle(w)

\* The worker's request ends with response r.
Finish(w, r) ==
    /\ req' = [req EXCEPT ![w] = IdleReq]
    /\ resp' = r
\* The worker's request is refused at its first step with response r.
Refuse(w, r) == Quiet /\ Finish(w, r)
\* The worker's request goes on with locals q.
Continue(w, q) ==
    /\ req' = [req EXCEPT ![w] = q]
    /\ UNCHANGED resp
Goto(w, pc) == Continue(w, [req[w] EXCEPT !.pc = pc])

\* ScheduleModel.Get: ErrScheduleNotFound for id < 1 and for no row.
Found(id) == id >= 1 /\ Exists(id)

\* Updates the stored rows have taken (each raises version by one).
RECURSIVE UpdatesUpTo(_)
UpdatesUpTo(n) ==
    IF n = 0 THEN 0
    ELSE (IF Exists(n) THEN schedules[n].version - 1 ELSE 0) + UpdatesUpTo(n - 1)
InFlight(ops) == {w \in Workers : req[w].op \in ops}
\* Room in the workload for one more Create, update, Delete.
CanCreate == nextId + Cardinality(InFlight({"create"})) <= scope.appointments
CanUpdate ==
    UpdatesUpTo(nextId - 1)
        + Cardinality(InFlight({"cancel", "status", "reschedule"})) < scope.updates
CanDelete == (nextId - 1) - Cardinality(DOMAIN schedules) < scope.deletes
\* Worker w may take a request: one that would be refused if no request is in
\* flight, one that goes on if the workload has room for it.
MayBegin(w, room) == CanBegin(w) /\ (Quiet \/ room)

\* ------------------------------------------------ createScheduleHandler
\* Lines 61-75: the default duration and the schedule struct.
NewSchedule(user, property, at, durInput, notes) ==
    [NoRow EXCEPT !.property_id = property, !.user_id = user,
                  !.agent_id = PropertyAgent(property), !.scheduled_at = at,
                  !.duration_minutes =
                      IF durInput = 0 THEN DefaultDurationMinutes ELSE durInput,
                  !.status = "pending", !.notes = notes]

\* Lines 19-82: up to ValidateSchedule.
CreateBegin(w, user, property, at, durInput, notes) ==
    /\ MayBegin(w, CanCreate)
    /\ LET s == NewSchedule(user, property, at, durInput, notes)
           errors == ValidateSchedule(s, now)
       IN  IF Valid(errors)
           THEN /\ CanCreate
                /\ Continue(w, [IdleReq EXCEPT !.op = "create", !.pc = "ins_check",
                                               !.user = user, !.schedule = s])
           ELSE Refuse(w, FailedValidation(w, "create", NoId, "Validation", errors))
    /\ UNCHANGED <<schedules, nextId, now, scope>>

\* ScheduleModel.Insert, the conflict query (lines 105-134).
InsertCheck(w) ==
    /\ At(w, "ins_check")
    /\ LET s == req[w].schedule
           endTime == s.scheduled_at + s.duration_minutes
       IN  IF InsertConflicts(s.agent_id, s.scheduled_at, endTime) # {}
           THEN Finish(w, FailedValidation(w, "create", NoId, "ScheduleConflict",
                            AddError(NoErrors, "scheduled_at", MsgBooked)))
           ELSE Goto(w, "ins_write")
    /\ UNCHANGED <<schedules, nextId, now, scope>>

\* ScheduleModel.Insert, the INSERT (lines 136-158), and the handler's answer.
InsertWrite(w) ==
    /\ At(w, "ins_write")
    /\ LET row == InsertedRow(req[w].schedule, nextId, now)
       IN  /\ nextId' = nextId + 1
           /\ IF TableConstraints(row)
              THEN /\ schedules' = (nextId :> row) @@ schedules
                   /\ Finish(w, [Response(w, "create", row.id, StatusCreated, "")
                          EXCEPT !.body = row,
                                 !.event = [NoEvent EXCEPT !.type = "created",
                                                           !.id = row.id,
                                                           !.outcome = "queued"]])
              ELSE /\ UNCHANGED schedules
                   /\ Finish(w, Response(w, "create", NoId, StatusServerError,
                                         "ServerError"))
    /\ UNCHANGED <<now, scope>>

\* --------------------------------------------- cancelUserScheduleHandler
\* A faulty cancelUserScheduleHandler: the owner of the schedule is not
\* compared with the principal.
CancelBeginAnyUser(w, user, id) ==
    /\ MayBegin(w, CanUpdate)
    /\ IF ~Found(id)
       THEN Refuse(w, Response(w, "cancel", id, StatusNotFound, "NotFound"))
       ELSE IF schedules[id].status \in TerminalStatuses
       THEN Refuse(w, Response(w, "cancel", id, StatusBadRequest, "NotEditable"))
       ELSE /\ CanUpdate
            /\ Continue(w, [IdleReq EXCEPT !.op = "cancel", !.pc = "cn_write",
                                           !.user = user,
                                           !.id = id, !.target = "cancelled",
                                           !.schedule = Fetched(schedules[id])])
    /\ UNCHANGED <<schedules, nextId, now, scope>>
\* Lines 181-211: Get, the ownership check, the status check.
CancelBegin(w, user, id) ==
    /\ MayBegin(w, CanUpdate)
    /\ IF ~Found(id)
       THEN Refuse(w, Response(w, "cancel", id, StatusNotFound, "NotFound"))
       ELSE IF schedules[id].user_id # user
       THEN Refuse(w, Response(w, "cancel", id, StatusForbidden, "NotPermitted"))
       ELSE IF schedules[id].status \in TerminalStatuses
       THEN Refuse(w, Response(w, "cancel", id, StatusBadRequest, "NotEditable"))
       ELSE /\ CanUpdate
            /\ Continue(w, [IdleReq EXCEPT !.op = "cancel", !.pc = "cn_write",
                                           !.user = user,
                                           !.id = id, !.target = "cancelled",
                                           !.schedule = Fetched(schedules[id])])
    /\ UNCHANGED <<schedules, nextId, now, scope>>

\* ScheduleModel.UpdateStatus called with the version the handler read.
CancelWrite(w) ==
    /\ At(w, "cn_write")
    /\ LET id == req[w].id
       IN  IF VersionMatches(id, req[w].schedule.version)
           THEN /\ schedules' = [schedules EXCEPT
                       ![id] = StatusUpdatedRow(schedules[id], req[w].target)]
                /\ Finish(w, Answer(w, StatusOK, ""))
           ELSE /\ UNCHANGED schedules
                /\ Finish(w, Answer(w, StatusConflict, "EditConflict"))
    /\ UNCHANGED <<nextId, now, scope>>

\* --------------------------------------- updateAgentScheduleStatusHandler
\* A faulty validStatuses: pending is taken too.
AgentStatusesWithPending == {"pending", "confirmed", "cancelled", "completed"}
\* validStatuses (lines 360-361): the statuses an agent may set.
AgentStatuses == {"confirmed", "cancelled", "completed"}

\* Lines 316-366: the role check, Get, the ownership check, the status input.
AgentBegin(w, user, id, target) ==
    /\ MayBegin(w, CanUpdate)
    /\ IF Role(user) # "agent"
       THEN Refuse(w, Response(w, "status", id, StatusForbidden, "NotPermitted"))
       ELSE IF ~Found(id)
       THEN Refuse(w, Response(w, "status", id, StatusNotFound, "NotFound"))
       ELSE IF schedules[id].agent_id # user
       THEN Refuse(w, Response(w, "status", id, StatusForbidden, "NotPermitted"))
       ELSE IF target \notin AgentStatuses
       THEN Refuse(w, FailedValidation(w, "status", id, "Validation",
                        AddError(NoErrors, "status", MsgAgentStatus)))
       ELSE /\ CanUpdate
            /\ Continue(w, [IdleReq EXCEPT !.op = "status", !.pc = "ag_write",
                                           !.user = user,
                                           !.id = id, !.target = target,
                                           !.schedule = Fetched(schedules[id])])
    /\ UNCHANGED <<schedules, nextId, now, scope>>

\* ScheduleModel.UpdateStatus called with the version the handler read.
AgentWrite(w) ==
    /\ At(w, "ag_write")
    /\ LET id == req[w].id
       IN  IF VersionMatches(id, req[w].schedule.version)
           THEN /\ schedules' = [schedules EXCEPT
                       ![id] = StatusUpdatedRow(schedules[id], req[w].target)]
                /\ Goto(w, "ag_fetch")
           ELSE /\ UNCHANGED schedules
                /\ Finish(w, Answer(w, StatusConflict, "EditConflict"))
    /\ UNCHANGED <<nextId, now, scope>>

\* Lines 380-390: the updated schedule is fetched and returned.
AgentFetch(w) ==
    /\ At(w, "ag_fetch")
    /\ LET id == req[w].id
       IN  IF Found(id)
           THEN Finish(w, [Answer(w, StatusOK, "") EXCEPT !.body = schedules[id]])
           ELSE Finish(w, Answer(w, StatusServerError, "ServerError"))
    /\ UNCHANGED <<schedules, nextId, now, scope>>

\* ------------------------------------------ rescheduleUserScheduleHandler
\* Lines 416-469: Get, the ownership check, the default duration and
\* ValidateReschedule on the schedule the handler read.  durInput is NULL for a
\* body without duration_minutes.
RescheduleBegin(w, user, id, at, durInput) ==
    /\ MayBegin(w, CanUpdate)
    /\ IF ~Found(id)
       THEN Refuse(w, Response(w, "reschedule", id, StatusNotFound, "NotFound"))
       ELSE IF schedules[id].user_id # user
       THEN Refuse(w, Response(w, "reschedule", id, StatusForbidden, "NotPermitted"))
       ELSE LET s == schedules[id]
                newDuration == IF durInput = NULL THEN s.duration_minutes
                               ELSE durInput
                errors == ValidateReschedule(s, at, newDuration, now)
            IN  IF Valid(errors)
                THEN /\ CanUpdate
                     /\ Continue(w, [IdleReq EXCEPT
                            !.op = "reschedule", !.pc = "rs_get",
                            !.user = user, !.id = id,
                            !.at = at, !.dur = newDuration,
                            !.schedule = Fetched(s)])
                ELSE Refuse(w, FailedValidation(w, "reschedule", id,
                                                "Validation", errors))
    /\ UNCHANGED <<schedules, nextId, now, scope>>

\* ScheduleModel.Reschedule, its own Get (lines 427-431); ErrScheduleNotFound
\* falls to the handler's default case.
RescheduleGet(w) ==
    /\ At(w, "rs_get")
    /\ LET id == req[w].id
       IN  IF Found(id)
           THEN Continue(w, [req[w] EXCEPT !.pc = "rs_check",
                                           !.current = Current(schedules[id])])
           ELSE Finish(w, Answer(w, StatusServerError, "ServerError"))
    /\ UNCHANGED <<schedules, nextId, now, scope>>

\* A faulty Reschedule: it waits until the window is free.
RescheduleCheckWaits(w) ==
    /\ At(w, "rs_check")
    /\ RescheduleConflicts(req[w].current.agent_id, req[w].id,
                           req[w].at, req[w].at + req[w].dur) = {}
    /\ Goto(w, "rs_write")
    /\ UNCHANGED <<schedules, nextId, now, scope>>
\* ScheduleModel.Reschedule, the conflict query (lines 433-464).
RescheduleCheck(w) ==
    /\ At(w, "rs_check")
    /\ LET newEndTime == req[w].at + req[w].dur
       IN  IF RescheduleConflicts(req[w].current.agent_id, req[w].id,
                                  req[w].at, newEndTime) # {}
           THEN Finish(w, AnswerConflict(w))
           ELSE Goto(w, "rs_write")
    /\ UNCHANGED <<schedules, nextId, now, scope>>

\* ScheduleModel.Reschedule, the UPDATE (lines 466-494) with the version the
\* handler read; a row the table's constraints refuse is a database error.
RescheduleWrite(w) ==
    /\ At(w, "rs_write")
    /\ LET id == req[w].id
       IN  IF ~VersionMatches(id, req[w].schedule.version)
           THEN /\ UNCHANGED schedules
                /\ Finish(w, Answer(w, StatusConflict, "EditConflict"))
           ELSE LET row == RescheduledRow(schedules[id], req[w].at, req[w].dur,
                                          req[w].current.scheduled_at, now)
                IN  IF TableConstraints(row)
                    THEN /\ schedules' = [schedules EXCEPT ![id] = row]
                         /\ Goto(w, "rs_fetch")
                    ELSE /\ UNCHANGED schedules
                         /\ Finish(w, Answer(w, StatusServerError, "ServerError"))
    /\ UNCHANGED <<nextId, now, scope>>

\* Lines 510-536: the notification of a reschedule, made of the schedule the
\* handler read first, the request body and the schedule fetched after the
\* UPDATE.
RescheduledEvent(schedule, newScheduledAt, updatedSchedule) ==
    [type |-> "rescheduled", id |-> updatedSchedule.id,
     old |-> schedule.scheduled_at, new |-> newScheduledAt,
     count |-> updatedSchedule.reschedule_count, outcome |-> "queued"]

\* A faulty handling of the notes of a reschedule body: they are written to
\* the row.
RowsAfterNotesStored(id, notes) ==
    [schedules EXCEPT ![id].notes = notes]
\* Lines 487-495: the notes of the body are set on the copy of the schedule
\* the handler has just fetched, and the copy is dropped; the table is as it
\* was.
RowsAfterNotes(id, notes) ==
    schedules

\* Lines 486-557: with notes in the body the schedule is fetched and the notes
\* are set on that copy, which is then dropped (nothing is written back); then
\* the updated schedule is fetched, the agent is looked up, the notification is
\* handed to the background task and the schedule is returned.  Ids are never
\* reused, so the first fetch fails only if the second does: the two answer as
\* the second.  notes is the notes of the body, which the handler reads here
\* for the first time; agentFound is whether Users.GetByID gave the agent;
\* without the agent the error is logged and no notification is made.
RescheduleFetch(w, notes, agentFound) ==
    /\ At(w, "rs_fetch")
    /\ LET id == req[w].id
       IN  IF Found(id)
           THEN /\ schedules' = IF notes # NoNotes THEN RowsAfterNotes(id, notes)
                                 ELSE schedules
                /\ Finish(w, [Answer(w, StatusOK, "") EXCEPT
                       !.body = schedules'[id],
                       !.notes = notes,
                       !.event = IF agentFound
                                 THEN RescheduledEvent(req[w].schedule, req[w].at,
                                                       schedules'[id])
                                 ELSE NoEvent])
           ELSE /\ UNCHANGED schedules
                /\ Finish(w, Answer(w, StatusServerError, "ServerError"))
    /\ UNCHANGED <<nextId, now, scope>>

\* ------------------------------------------------------ the read handlers
\* A faulty Scan: the version column is not selected and stays 0.
ScannedWithoutVersion(row) ==
    [row EXCEPT !.version = 0]
\* ScheduleModel.Get, the SELECT and its Scan: the thirteen columns of the row.
Scanned(row) ==
    [id |-> row.id, property_id |-> row.property_id, user_id |-> row.user_id,
     agent_id |-> row.agent_id, scheduled_at |-> row.scheduled_at,
     duration_minutes |-> row.duration_minutes, status |-> row.status,
     notes |-> row.notes, reschedule_count |-> row.reschedule_count,
     original_scheduled_at |-> row.original_scheduled_at,
     last_rescheduled_at |-> row.last_rescheduled_at,
     created_at |-> row.created_at, version |-> row.version]

\* getUserScheduleHandler: Get and the ownership check.
GetUserSchedule(w, user, id) ==
    /\ CanBegin(w)
    /\ IF ~Found(id)
       THEN Finish(w, Response(w, "get", id, StatusNotFound, "NotFound"))
       ELSE IF schedules[id].user_id # user
       THEN Finish(w, Response(w, "get", id, StatusForbidden, "NotPermitted"))
       ELSE Finish(w, [Response(w, "get", id, StatusOK, "") EXCEPT
                           !.body = Scanned(schedules[id])])
    /\ UNCHANGED <<schedules, nextId, now, scope>>

\* getAgentScheduleHandler: the role check, Get and the ownership check.
GetAgentSchedule(w, user, id) ==
    /\ CanBegin(w)
    /\ IF Role(user) # "agent"
       THEN Finish(w, Response(w, "agent_get", id, StatusForbidden, "NotPermitted"))
       ELSE IF ~Found(id)
       THEN Finish(w, Response(w, "agent_get", id, StatusNotFound, "NotFound"))
       ELSE IF schedules[id].agent_id # user
       THEN Finish(w, Response(w, "agent_get", id, StatusForbidden, "NotPermitted"))
       ELSE Finish(w, [Response(w, "agent_get", id, StatusOK, "") EXCEPT
                           !.body = Scanned(schedules[id])])
    /\ UNCHANGED <<schedules, nextId, now, scope>>

\* GetAllForUser: the rows WHERE s.user_id = $1, each scanned.  The answer is
\* kept as the set of its rows: their order and the page are set by Filters,
\* and the first page of the handler's default, 20 rows, holds every row of
\* the workloads.
GetAllForUser(user) ==
    {Scanned(schedules[i]) : i \in {j \in DOMAIN schedules :
                                        schedules[j].user_id = user}}
\* GetAllForAgent: the rows WHERE s.agent_id = $1 AND (s.status = $2 OR
\* $2 = '').
GetAllForAgent(agent, status) ==
    {Scanned(schedules[i]) : i \in {j \in DOMAIN schedules :
                                        /\ schedules[j].agent_id = agent
                                        /\ schedules[j].status = status
                                               \/ status = ""}}

\* listUserSchedulesHandler.
ListUserSchedules(w, user) ==
    /\ CanBegin(w)
    /\ Finish(w, [Response(w, "list", NoId, StatusOK, "") EXCEPT
                      !.list = GetAllForUser(user)])
    /\ UNCHANGED <<schedules, nextId, now, scope>>

\* listAgentSchedulesHandler.
ListAgentSchedules(w, user, status) ==
    /\ CanBegin(w)
    /\ IF Role(user) # "agent"
       THEN Finish(w, Response(w, "agent_list", NoId, StatusForbidden, "NotPermitted"))
       ELSE Finish(w, [Response(w, "agent_list", NoId, StatusOK, "") EXCEPT
                           !.list = GetAllForAgent(user, status)])
    /\ UNCHANGED <<schedules, nextId, now, scope>>

\* A faulty GetStatsForAgent: the query has no WHERE clause.
GetStatsOfAllAgents(agent) ==
    LET counted(status) ==
            Cardinality({i \in DOMAIN schedules : schedules[i].status = status})
    IN  [total |-> Cardinality(DOMAIN schedules),
         pending |-> counted("pending"), confirmed |-> counted("confirmed"),
         completed |-> counted("completed"), cancelled |-> counted("cancelled")]
\* GetStatsForAgent: COUNT(*) and COUNT(CASE WHEN status = ... THEN 1 END) of
\* the rows WHERE agent_id = $1.
GetStatsForAgent(agent) ==
    LET rows == {i \in DOMAIN schedules : schedules[i].agent_id = agent}
        counted(status) ==
            Cardinality({i \in rows : schedules[i].status = status})
    IN  [total |-> Cardinality(rows),
         pending |-> counted("pending"), confirmed |-> counted("confirmed"),
         completed |-> counted("completed"), cancelled |-> counted("cancelled")]

\* getAgentScheduleStatsHandler.
GetAgentScheduleStats(w, user) ==
    /\ CanBegin(w)
    /\ IF Role(user) # "agent"
       THEN Finish(w, Response(w, "stats", NoId, StatusForbidden, "NotPermitted"))
       ELSE Finish(w, [Response(w, "stats", NoId, StatusOK, "") EXCEPT
                           !.stats = GetStatsForAgent(user)])
    /\ UNCHANGED <<schedules, nextId, now, scope>>

\* ------------------------------------------------- ScheduleModel.Delete
\* A faulty DELETE: only a pending row is removed.
RowsAfterDeletePending(id) ==
    IF schedules[id].status = "pending"
    THEN [i \in DOMAIN schedules \ {id} |-> schedules[i]]
    ELSE schedules
\* The table after DELETE FROM schedules WHERE id = $1.
RowsAfterDelete(id) ==
    [i \in DOMAIN schedules \ {id} |-> schedules[i]]

Delete(w, id) ==
    /\ MayBegin(w, CanDelete)
    /\ IF Found(id)
       THEN /\ CanDelete
            /\ schedules' = RowsAfterDelete(id)
            /\ Finish(w, Response(w, "delete", id, StatusOK, ""))
       ELSE /\ UNCHANGED schedules
            /\ Refuse(w, Response(w, "delete", id, StatusNotFound, "NotFound"))
    /\ UNCHANGED <<nextId, now, scope>>

\* A faulty background task: its failure becomes the answer of the request.
NotifiedOrFailed(r, outcome) ==
    IF outcome = "failed"
    THEN [r EXCEPT !.event.outcome = outcome, !.code = StatusServerError,
                   !.err = "ServerError"]
    ELSE [r EXCEPT !.event.outcome = outcome]
\* application.background: the task of a notification runs; it logs, or sends
\* the mail, or fails, and a failure or a panic is only logged.
Notified(r, outcome) ==
    [r EXCEPT !.event.outcome = outcome]
Notify(outcome) ==
    /\ resp.event.outcome = "queued"
    /\ resp' = Notified(resp, outcome)
    /\ UNCHANGED <<schedules, nextId, now, req, scope>>

\* The response is written to the client.
Return ==
    /\ resp # NoResp
    /\ resp' = NoResp
    /\ UNCHANGED <<schedules, nextId, now, req, scope>>

\* serve: a shutdown that outlasts its timeout ends the process while handlers
\* are in flight; the handler of worker w stops where it is, without an answer.
Abandon(w) ==
    /\ ~Idle(w)
    /\ resp = NoResp
    /\ req' = [req EXCEPT ![w] = IdleReq]
    /\ UNCHANGED <<schedules, nextId, now, resp, scope>>

\* ------------------------------------------------------------ the clock
Tick ==
    /\ resp = NoResp
    /\ now < 60 * scope.hours
    /\ now' = now + 60
    /\ UNCHANGED <<schedules, nextId, req, resp, scope>>

\* ------------------------------------------------------ the specification
\* What a request may carry.
Requesters == {u \in Principals : Role(u) = "user"}
\* The user who books viewings; the other requester is a stranger to them.
Bookers == {1}
TimeInputs == Instants(scope.slots) \cup {ZeroTime}
\* duration_minutes of a body: not positive, valid, too long.
DurationInputs == {-30, 0, 120, 481}
\* readJSON into an int field: a body without the field leaves it 0.
DecodedInt(field) == IF field = NULL THEN 0 ELSE field
NotifyOutcomes == {"sent", "failed"}
NoteInputs == {ShortNote, LongNote}
\* notes of a reschedule body: none, or a note other than the one stored.
RescheduleNotes == {NoNotes, LongNote}
StatusInputs == {"pending", "confirmed", "cancelled", "completed"}
IdInputs == 0..nextId
\* The properties are alike: the first appointment is for the first of them.
PropertyInputs ==
    IF nextId = 1 /\ InFlight({"create"}) = {} THEN {1} ELSE Properties
\* A reschedule refused before its body is read is tried with one body.
RescheduleBodies(user, id) ==
    IF Found(id) /\ schedules[id].user_id = user
    THEN TimeInputs \X (DurationInputs \cup {NULL})
    ELSE {<<ZeroTime, NULL>>}
\* A status change refused before its body is read is tried with one body.
StatusBodies(user, id) ==
    IF Role(user) = "agent" /\ Found(id) /\ schedules[id].agent_id = user
    THEN StatusInputs
    ELSE {"confirmed"}
Ready == {w \in Workers : CanBegin(w)}

\* The workloads: one appointment through its life; several appointments
\* updated together; one appointment made and changed as time passes; several
\* appointments of which one is changed and one deleted.
Scopes ==
    {[appointments |-> 1, updates |-> LifeUpdates, deletes |-> MaxDeletes,
      slots |-> MaxSlot, hours |-> 0],
     [appointments |-> MaxAppointments, updates |-> SharedUpdates, deletes |-> 0,
      slots |-> MaxSlot - 1, hours |-> 0],
     [appointments |-> 1, updates |-> 2, deletes |-> 0,
      slots |-> MaxSlot, hours |-> MaxClock],
     [appointments |-> MaxAppointments, updates |-> SharedUpdates - 1,
      deletes |-> MaxDeletes, slots |-> MaxSlot, hours |-> 0]}

Init ==
    /\ schedules = <<>>
    /\ nextId = 1
    /\ now = 0
    /\ req = [w \in Workers |-> IdleReq]
    /\ resp = NoResp
    /\ scope \in Scopes

Next ==
    \/ \E w \in Ready, user \in Bookers, property \in PropertyInputs,
          at \in TimeInputs, dur \in DurationInputs \cup {NULL},
          notes \in NoteInputs :
          CreateBegin(w, user, property, at, DecodedInt(dur), notes)
    \/ \E w \in Workers : InsertCheck(w)
    \/ \E w \in Workers : InsertWrite(w)
    \/ \E w \in Ready, user \in Requesters, id \in IdInputs :
          CancelBegin(w, user, id)
    \/ \E w \in Workers : CancelWrite(w)
    \/ \E w \in Ready, user \in Principals, id \in IdInputs :
          \E target \in StatusBodies(user, id) : AgentBegin(w, user, id, target)
    \/ \E w \in Workers : AgentWrite(w)
    \/ \E w \in Workers : AgentFetch(w)
    \/ \E w \in Ready, user \in Requesters, id \in IdInputs :
          \E body \in RescheduleBodies(user, id) :
              RescheduleBegin(w, user, id, body[1], body[2])
    \/ \E w \in Workers : RescheduleGet(w)
    \/ \E w \in Workers : RescheduleCheck(w)
    \/ \E w \in Workers : RescheduleWrite(w)
    \/ \E w \in Workers, notes \in RescheduleNotes, agentFound \in BOOLEAN :
          RescheduleFetch(w, notes, agentFound)
    \/ \E w \in Ready, id \in IdInputs : Delete(w, id)
    \/ \E outcome \in NotifyOutcomes : Notify(outcome)
    \/ Return
    \/ \E w \in Workers : Abandon(w)
    \/ Tick

Spec == Init /\ [][Next]_vars

\* The specification of the workloads that follow one appointment.
LifeScopes == {s \in Scopes : s.appointments = 1}

LifeInit ==
    /\ schedules = <<>>
    /\ nextId = 1
    /\ now = 0
    /\ req = [w \in Workers |-> IdleReq]
    /\ resp = NoResp
    /\ scope \in LifeScopes

LifeSpec == LifeInit /\ [][Next]_vars

\* The workloads of one appointment and the requests that change it together:
\* up to three changes of the one row, among the instants of which one is
\* beyond the notice; and one change while the clock moves.
RowScopes ==
    {[appointments |-> 1, updates |-> LifeUpdates - 1,
      deletes |-> MaxDeletes, slots |-> MaxSlot - 1, hours |-> 0],
     [appointments |-> 1, updates |-> 1,
      deletes |-> MaxDeletes, slots |-> MaxSlot - 1, hours |-> 1]}

RowInit ==
    /\ schedules = <<>>
    /\ nextId = 1
    /\ now = 0
    /\ req = [w \in Workers |-> IdleReq]
    /\ resp = NoResp
    /\ scope \in RowScopes

RowSpec == RowInit /\ [][Next]_vars

\* The workloads of the appointments that meet in one agent's calendar:
\* several appointments of which one is changed or deleted; and one
\* appointment while the clock moves.
PairScopes ==
    {[appointments |-> MaxAppointments, updates |-> SharedUpdates - 1,
      deletes |-> MaxDeletes, slots |-> MaxSlot - 1, hours |-> 0],
     [appointments |-> 1, updates |-> 1,
      deletes |-> MaxDeletes, slots |-> MaxSlot - 1, hours |-> 1]}

PairInit ==
    /\ schedules = <<>>
    /\ nextId = 1
    /\ now = 0
    /\ req = [w \in Workers |-> IdleReq]
    /\ resp = NoResp
    /\ scope \in PairScopes

PairSpec == PairInit /\ [][Next]_vars

\* The specification of a server that is not shut down, for what requests
\* lead to: every request of Next, none cut off.  Each request runs on a
\* goroutine of its own, which the runtime schedules, and each statement is
\* answered by the database or ends with the timeout of its context; so a
\* handler that can take its next step takes it, and an answer is written.
\* The fairness of the handlers is strong because the one answer kept in resp
\* holds the other handlers' steps back until it is written, which nothing in
\* the program does.
\* The step of worker w's handler after its first.
HandlerStep(w) ==
    \/ InsertCheck(w)
    \/ InsertWrite(w)
    \/ CancelWrite(w)
    \/ AgentWrite(w)
    \/ AgentFetch(w)
    \/ RescheduleGet(w)
    \/ RescheduleCheck(w)
    \/ RescheduleWrite(w)
    \/ \E notes \in RescheduleNotes, agentFound \in BOOLEAN :
           RescheduleFetch(w, notes, agentFound)

\* The workloads of the requests that meet: several appointments of which one
\* is changed; one appointment changed by requests that run together, and
\* deleted.
LiveScopes ==
    {[appointments |-> MaxAppointments, updates |-> SharedUpdates - 1,
      deletes |-> 0, slots |-> MaxSlot - 1, hours |-> 0],
     [appointments |-> 1, updates |-> SharedUpdates,
      deletes |-> MaxDeletes, slots |-> MaxSlot - 1, hours |-> 1]}

LiveInit ==
    /\ schedules = <<>>
    /\ nextId = 1
    /\ now = 0
    /\ req = [w \in Workers |-> IdleReq]
    /\ resp = NoResp
    /\ scope \in LiveScopes

LiveNext ==
    \/ \E w \in Ready, user \in Bookers, property \in PropertyInputs,
          at \in TimeInputs, dur \in DurationInputs \cup {NULL},
          notes \in NoteInputs :
          CreateBegin(w, user, property, at, DecodedInt(dur), notes)
    \/ \E w \in Ready, user \in Requesters, id \in IdInputs :
          CancelBegin(w, user, id)
    \/ \E w \in Ready, user \in Principals, id \in IdInputs :
          \E target \in StatusBodies(user, id) : AgentBegin(w, user, id, target)
    \/ \E w \in Ready, user \in Requesters, id \in IdInputs :
          \E body \in RescheduleBodies(user, id) :
              RescheduleBegin(w, user, id, body[1], body[2])
    \/ \E w \in Workers : HandlerStep(w)
    \/ \E w \in Ready, id \in IdInputs : Delete(w, id)
    \/ \E outcome \in NotifyOutcomes : Notify(outcome)
    \/ Return
    \/ Tick

LiveSpec ==
    /\ LiveInit
    /\ [][LiveNext]_vars
    /\ WF_vars(Return)
    /\ \A w \in Workers : SF_vars(HandlerStep(w))

\* The specification with the read handlers: every request of Next, and reads
\* taken at any moment, also between the statements of a request in flight.
ListFilters == {"", "confirmed"}
\* The workloads of the reads: several appointments of which one is changed
\* and one deleted; one appointment read through its changes.
ReadScopes ==
    {[appointments |-> MaxAppointments, updates |-> SharedUpdates - 1,
      deletes |-> MaxDeletes, slots |-> MaxSlot - 1, hours |-> 0],
     [appointments |-> 1, updates |-> SharedUpdates,
      deletes |-> MaxDeletes, slots |-> MaxSlot - 1, hours |-> 1]}

ReadInit ==
    /\ schedules = <<>>
    /\ nextId = 1
    /\ now = 0
    /\ req = [w \in Workers |-> IdleReq]
    /\ resp = NoResp
    /\ scope \in ReadScopes

ReadNext ==
    \/ Next
    \/ \E w \in Ready, user \in Requesters, id \in IdInputs :
          GetUserSchedule(w, user, id)
    \/ \E w \in Ready, user \in Principals, id \in IdInputs :
          GetAgentSchedule(w, user, id)
    \/ \E w \in Ready, user \in Requesters : ListUserSchedules(w, user)
    \/ \E w \in Ready, user \in Principals, status \in ListFilters :
          ListAgentSchedules(w, user, status)
    \/ \E w \in Ready, user \in Principals : GetAgentScheduleStats(w, user)

ReadSpec == ReadInit /\ [][ReadNext]_vars

\* ---------------------------------------------- vocabulary of the properties
Active(row) == row.status \in ActiveStatuses
\* The half-open intervals [scheduled_at, scheduled_at + duration) meet.
Overlap(a, b) ==
    /\ a.scheduled_at < b.scheduled_at + b.duration_minutes
    /\ b.scheduled_at < a.scheduled_at + a.duration_minutes
\* Two appointments that book one agent twice.
Clash(a, b) ==
    /\ a.id # b.id
    /\ a.agent_id = b.agent_id
    /\ Active(a) /\ Active(b)
    /\ Overlap(a, b)

\* The steps of a mutation up to and including its conditional UPDATE.
BeforeWrite == {"cn_write", "ag_write", "rs_get", "rs_check", "rs_write"}
\* Worker w has read a version of a row that is no longer the row's version.
Stale(w) ==
    /\ req[w].pc \in BeforeWrite
    /\ Exists(req[w].id)
    /\ schedules[req[w].id].version # req[w].schedule.version
\* Worker w's request is answered in this step.
Answered(w) == resp = NoResp /\ resp'.worker = w
\* Worker w's conditional UPDATE writes in this step.
Commits(w) ==
    \/ At(w, "cn_write") /\ resp'.worker = w /\ resp'.code = StatusOK
    \/ At(w, "ag_write") /\ req'[w].pc = "ag_fetch"
    \/ At(w, "rs_write") /\ req'[w].pc = "rs_fetch"
RescheduleCommits(w) == At(w, "rs_write") /\ req'[w].pc = "rs_fetch"
\* The window a reschedule in flight asks for is taken at this moment.
WindowTaken(w) ==
    RescheduleConflicts(schedules[req[w].id].agent_id, req[w].id,
                        req[w].at, req[w].at + req[w].dur) # {}
\* The refusal the handler gives for a schedule at the reschedule limit.
MaxReschedulesReached(r) ==
    /\ r.op = "reschedule"
    /\ r.err = "Validation"
    /\ "reschedule" \in DOMAIN r.errors
    /\ r.errors["reschedule"] = MsgMaxReschedules

\* ------------------------------------------------------------------ C1
\* C1: in every reachable state no two appointments of one agent that are both
\* pending or confirmed have overlapping intervals.  The code breaks this.
NoDoubleBooking ==
    \A i \in DOMAIN schedules, j \in DOMAIN schedules :
        ~Clash(schedules[i], schedules[j])

\* ------------------------------------------------------------------ C2
\* C2: of concurrent Creates for one agent and overlapping windows only one
\* inserts: an INSERT never adds a row that clashes with a stored row.  The
\* code breaks this.
CreateNeverDoubleBooks ==
    [][\A id \in DOMAIN schedules' \ DOMAIN schedules :
          \A j \in DOMAIN schedules : ~Clash(schedules'[id], schedules[j])]_vars

\* ------------------------------------------------------------------ C3
\* C3: a Reschedule concurrent with a Create or with another Reschedule for the
\* same agent never commits into a window that is taken: the UPDATE of a
\* reschedule never leaves its row clashing with another row.  The code breaks
\* this.
RescheduleNeverDoubleBooks ==
    [][\A w \in Workers :
          RescheduleCommits(w) =>
              \A j \in DOMAIN schedules' :
                  ~Clash(schedules'[req[w].id], schedules'[j])]_vars

\* ------------------------------------------------------------------ C4
\* C4 as stated: a Reschedule or status change that carries a version other
\* than the row's fails with EditConflict, whatever the window, and leaves the
\* row as it was.
StaleFailsWithEditConflict ==
    [][\A w \in Workers :
          Stale(w) /\ Answered(w) =>
              /\ resp'.err = "EditConflict"
              /\ schedules' = schedules]_vars

\* C4 as the code has it: a Reschedule or status change that carries a version
\* other than the row's fails and leaves the row as it was; it fails with
\* EditConflict, except that a Reschedule whose window is taken by another
\* appointment of the agent fails with ScheduleConflict, the conflict query
\* coming before the conditional UPDATE.
StaleFailsUnchanged ==
    [][\A w \in Workers :
          Stale(w) /\ Answered(w) =>
              /\ schedules' = schedules
              /\ resp'.err \in {"EditConflict", "ScheduleConflict"}
              /\ resp'.err = "ScheduleConflict" =>
                     req[w].op = "reschedule" /\ WindowTaken(w)]_vars

\* A reschedule carrying a stale version was answered ScheduleConflict.
StaleRescheduleRefusedForWindow ==
    /\ resp.op = "reschedule"
    /\ resp.err = "ScheduleConflict"
    /\ Exists(resp.id)
    /\ schedules[resp.id].version # resp.seen

\* ------------------------------------------------------------------ C5
\* Another mutation of the row has committed since the mutation answered by r
\* read it, and r reports a failure.
Lost(r) ==
    /\ r.op \in {"cancel", "status", "reschedule"}
    /\ r.seen > 0
    /\ r.code # StatusOK
    /\ Exists(r.id)
    /\ schedules[r.id].version > r.seen

\* C5 as stated: of two mutations that read one version of an appointment, the
\* one that does not commit fails with EditConflict.
LoserGetsEditConflict ==
    Lost(resp) => resp.err = "EditConflict"

\* C5 as the code has it: a mutation commits only if the row still has the
\* version it read, and the commit raises the version, so of two mutations
\* that read one version at most one commits; the other writes nothing and
\* fails, with EditConflict at its conditional UPDATE or, a Reschedule whose
\* window is taken, with ScheduleConflict before it.
OneCommitPerVersion ==
    [][\A w \in Workers :
          /\ Commits(w) =>
                 /\ schedules[req[w].id].version = req[w].schedule.version
                 /\ schedules'[req[w].id].version = req[w].schedule.version + 1
          /\ Stale(w) => ~Commits(w)
          /\ Stale(w) /\ Answered(w) =>
                 \/ resp'.err = "EditConflict"
                 \/ resp'.err = "ScheduleConflict" /\ req[w].op = "reschedule"]_vars

\* Two mutations read one version; one has committed and the other was
\* answered EditConflict.
LoserAnsweredEditConflict ==
    /\ Lost(resp)
    /\ resp.err = "EditConflict"
    /\ schedules[resp.id].version = resp.seen + 1

\* ------------------------------------------------------------------ C6
\* C6: a row's version is 1 when it is inserted, goes up by exactly 1 in every
\* step in which a Reschedule or a status change commits on it, and stays as
\* it is in every other step (failed operations, reads), so it never goes down
\* and never repeats.
VersionCountsCommits ==
    [][\A id \in DOMAIN schedules' :
          IF id \notin DOMAIN schedules
          THEN schedules'[id].version = 1
          ELSE schedules'[id].version =
                   schedules[id].version +
                       (IF \E w \in Workers : Commits(w) /\ req[w].id = id
                        THEN 1 ELSE 0)]_vars

\* A row that took a reschedule and a status change, after a mutation of it
\* failed.
VersionAfterTwoCommits ==
    /\ resp.err = "EditConflict"
    /\ Exists(resp.id)
    /\ schedules[resp.id].version = 3
    /\ schedules[resp.id].reschedule_count = 1
    /\ schedules[resp.id].status = "confirmed"

\* ------------------------------------------------------------------ C7
\* C7: once a row's status is cancelled or completed it never changes again.
\* The code breaks this.
TerminalIsTerminal ==
    [][\A id \in DOMAIN schedules \cap DOMAIN schedules' :
          schedules[id].status \in TerminalStatuses =>
              schedules'[id].status = schedules[id].status]_vars

\* ------------------------------------------------------------------ C8
\* C8: reschedule_count is between 0 and 3 in every reachable state, also when
\* reschedules of one appointment run together from snapshots below 3.
RescheduleCountInRange ==
    \A id \in DOMAIN schedules :
        schedules[id].reschedule_count \in 0..MaxReschedules

\* A row at the limit while a reschedule that read it below the limit is at
\* its UPDATE.
RescheduleRacesAtLimit ==
    \E w \in Workers :
        /\ req[w].pc = "rs_write"
        /\ Exists(req[w].id)
        /\ schedules[req[w].id].reschedule_count = MaxReschedules

\* ------------------------------------------------------------------ C9
\* C9: a row is inserted with reschedule_count 0; the count goes up by exactly
\* 1 in every step in which a reschedule commits on the row and stays as it is
\* in every other step; a reschedule commits only on a count below 3, so at
\* most three succeed; and a reschedule asked of a row whose count is 3 is
\* refused with the reschedule-limit error.
RescheduleCountCountsReschedules ==
    [][/\ \A id \in DOMAIN schedules' :
             IF id \notin DOMAIN schedules
             THEN schedules'[id].reschedule_count = 0
             ELSE schedules'[id].reschedule_count =
                      schedules[id].reschedule_count +
                          (IF \E w \in Workers :
                                  RescheduleCommits(w) /\ req[w].id = id
                           THEN 1 ELSE 0)
       /\ \A w \in Workers :
             RescheduleCommits(w) =>
                 schedules[req[w].id].reschedule_count < MaxReschedules
       /\ \A w \in Workers :
             (/\ Idle(w) /\ Answered(w)
              /\ resp'.op = "reschedule"
              /\ resp'.err \notin {"NotFound", "NotPermitted"}
              /\ schedules[resp'.id].reschedule_count = MaxReschedules)
                 => MaxReschedulesReached(resp')]_vars

\* The fourth reschedule of a row was refused with the reschedule-limit error.
FourthRescheduleRefused ==
    /\ MaxReschedulesReached(resp)
    /\ Exists(resp.id)
    /\ schedules[resp.id].reschedule_count = MaxReschedules
    /\ schedules[resp.id].version = MaxReschedules + 1

\* ------------------------------------------------------------------ C10
\* C10: a reschedule asked by its owner of a row whose reschedule_count is 3
\* is refused with the reschedule-limit error whatever time and duration the
\* body names, and no row changes.
RefusedAtLimitWhateverTheBody ==
    [][\A id \in DOMAIN schedules :
          schedules[id].reschedule_count = MaxReschedules =>
              \A w \in Workers, at \in TimeInputs,
                 dur \in DurationInputs \cup {NULL} :
                  RescheduleBegin(w, schedules[id].user_id, id, at, dur)
                      => /\ MaxReschedulesReached(resp')
                         /\ schedules' = schedules]_vars

\* A row at the limit and within the notice of two hours was asked for a
\* reschedule with a duration that is not valid, and refused for the limit.
RefusedAtLimitWithinNotice ==
    /\ MaxReschedulesReached(resp)
    /\ "duration_minutes" \in DOMAIN resp.errors
    /\ Exists(resp.id)
    /\ schedules[resp.id].reschedule_count = MaxReschedules
    /\ ~(now < schedules[resp.id].scheduled_at - MinNoticeMinutes)

\* ------------------------------------------------------------------ C11
\* C11: original_scheduled_at is NULL in a row as long as no reschedule has
\* committed on it (it is inserted NULL and is NULL exactly while
\* reschedule_count is 0); the first reschedule that commits sets it to the
\* scheduled_at the row had until then, which is the one it was created with,
\* scheduled_at changing in no step but a committing reschedule; and no later
\* reschedule, status change or other step changes it, whatever requests run
\* together.
OriginalScheduledAtSetOnce ==
    [][\A id \in DOMAIN schedules' :
          IF id \notin DOMAIN schedules
          THEN schedules'[id].original_scheduled_at = NULL
          ELSE LET rescheduled ==
                       \E w \in Workers : RescheduleCommits(w) /\ req[w].id = id
               IN  /\ schedules'[id].original_scheduled_at =
                          IF rescheduled /\ schedules[id].original_scheduled_at = NULL
                          THEN schedules[id].scheduled_at
                          ELSE schedules[id].original_scheduled_at
                   /\ ~rescheduled =>
                          schedules'[id].scheduled_at = schedules[id].scheduled_at
                   /\ (schedules'[id].original_scheduled_at = NULL)
                          <=> (schedules'[id].reschedule_count = 0)]_vars

\* A row rescheduled twice and confirmed: it still carries the time it was
\* created with, which is neither its time now nor the time in between.
OriginalKeptAfterSecondReschedule ==
    \E id \in DOMAIN schedules :
        /\ schedules[id].reschedule_count = 2
        /\ schedules[id].status = "confirmed"
        /\ schedules[id].version = 4
        /\ schedules[id].original_scheduled_at = 180
        /\ schedules[id].scheduled_at = 120

\* ------------------------------------------------------------------ C12
\* The refusal the handler gives for a schedule that is cancelled or completed.
NotEditable(r) ==
    /\ r.op = "reschedule"
    /\ r.err = "Validation"
    /\ "status" \in DOMAIN r.errors
    /\ r.errors["status"] = MsgNotEditable
\* Worker w's reschedule, asked by the owner of a stored row, is answered in
\* this step, at or before its UPDATE, while the row is cancelled or completed.
RescheduleOfTerminalAnswered(w) ==
    /\ Answered(w)
    /\ req[w].pc \in BeforeWrite \cup {"idle"}
    /\ resp'.op = "reschedule"
    /\ resp'.err \notin {"NotFound", "NotPermitted"}
    /\ Exists(resp'.id)
    /\ schedules[resp'.id].status \in TerminalStatuses

\* C12 as stated: a reschedule of a row that is cancelled or completed when
\* the request is answered fails with NotEditable and changes nothing, also
\* when the row became cancelled or completed after the request read it.
TerminalRescheduleGetsNotEditable ==
    [][\A w \in Workers :
          RescheduleOfTerminalAnswered(w) =>
              /\ NotEditable(resp')
              /\ schedules' = schedules]_vars

\* C12 as the code has it: a reschedule commits only on a row that is pending
\* or confirmed at the moment of the UPDATE; a reschedule of a row that is
\* cancelled or completed when the handler reads it fails with NotEditable and
\* changes nothing; a reschedule of a row that became cancelled or completed
\* after the handler read it changes nothing and fails with EditConflict at
\* the conditional UPDATE (the status change raised the version) or with
\* ScheduleConflict at the conflict query before it.
RescheduleNeedsActiveStatus ==
    [][\A w \in Workers :
          /\ RescheduleCommits(w) =>
                 schedules[req[w].id].status \in ActiveStatuses
          /\ RescheduleOfTerminalAnswered(w) =>
                 /\ schedules' = schedules
                 /\ IF Idle(w)
                    THEN NotEditable(resp')
                    ELSE resp'.err \in {"EditConflict", "ScheduleConflict"}]_vars

\* A reschedule read its row pending or confirmed, the row was then cancelled
\* or completed, and the reschedule was answered EditConflict.
RescheduleLostToTerminalStatus ==
    /\ resp.op = "reschedule"
    /\ resp.err = "EditConflict"
    /\ Exists(resp.id)
    /\ schedules[resp.id].status \in TerminalStatuses
    /\ schedules[resp.id].version = resp.seen + 1

\* ------------------------------------------- vocabulary of the detector
\* Worker w runs its conflict query in this step.
Checks(w) ==
    /\ At(w, "ins_check") \/ At(w, "rs_check")
    /\ req'[w] # req[w]
    /\ req'[w].pc # "idle" \/ resp'.worker = w
\* What worker w's conflict query is given: the agent, the window [from, to)
\* and the row left out (none for a Create).
Candidate(w) ==
    IF req[w].op = "create"
    THEN [agent |-> req[w].schedule.agent_id,
          from |-> req[w].schedule.scheduled_at,
          to |-> req[w].schedule.scheduled_at + req[w].schedule.duration_minutes,
          self |-> NoId]
    ELSE [agent |-> req[w].current.agent_id,
          from |-> req[w].at, to |-> req[w].at + req[w].dur,
          self |-> req[w].id]
\* The rows worker w's conflict query counts.
Detected(w) ==
    IF req[w].op = "create"
    THEN InsertConflicts(Candidate(w).agent, Candidate(w).from, Candidate(w).to)
    ELSE RescheduleConflicts(Candidate(w).agent, Candidate(w).self,
                             Candidate(w).from, Candidate(w).to)
\* The stored rows whose interval meets the window [from, to).
Meeting(from, to) ==
    {i \in DOMAIN schedules :
        /\ from < schedules[i].scheduled_at + schedules[i].duration_minutes
        /\ schedules[i].scheduled_at < to}
\* Worker w is answered ScheduleConflict in this step.
RefusedForConflict(w) == resp'.worker = w /\ resp'.err = "ScheduleConflict"

\* ------------------------------------------------------------------ C13
\* C13: when the window of a Create or a Reschedule meets an appointment of
\* the agent that is pending or confirmed (another one than the appointment
\* rescheduled), the conflict query finds it and the request fails with
\* ScheduleConflict; no row is inserted and no field of any row changes.
ConflictFailsUnchanged ==
    [][\A w \in Workers :
          (/\ Checks(w)
           /\ \E i \in Meeting(Candidate(w).from, Candidate(w).to) :
                 /\ i # Candidate(w).self
                 /\ schedules[i].agent_id = Candidate(w).agent
                 /\ Active(schedules[i]))
              => /\ RefusedForConflict(w)
                 /\ resp'.errors = ("scheduled_at" :> MsgBooked)
                 /\ schedules' = schedules
                 /\ nextId' = nextId]_vars

\* A Create was refused with ScheduleConflict: the agent's one appointment,
\* confirmed, from 120 to 240, is the only row as before.
CreateRefusedBesideConfirmed ==
    /\ resp.op = "create"
    /\ resp.err = "ScheduleConflict"
    /\ nextId = 2
    /\ DOMAIN schedules = {1}
    /\ schedules[1].status = "confirmed"
    /\ schedules[1].scheduled_at = 120
    /\ schedules[1].duration_minutes = 120

\* ------------------------------------------------------------------ C14
\* The rows a conflict query has to weigh for worker w: the agent's pending and
\* confirmed appointments, the one rescheduled left out.
Considered(w) ==
    {i \in DOMAIN schedules :
        /\ i # Candidate(w).self
        /\ schedules[i].agent_id = Candidate(w).agent
        /\ Active(schedules[i])}

\* C14: with [s1, e1) the window asked for and [s2, e2) the interval of an
\* appointment, the conflict query counts the appointment exactly when
\* s1 < e2 and s2 < e1; an appointment that ends exactly at s1 or starts
\* exactly at e1 is not counted, and a request whose window overlaps none of
\* the agent's active appointments passes the query.
OverlapIsHalfOpen ==
    [][\A w \in Workers :
          Checks(w) =>
              LET s1 == Candidate(w).from
                  e1 == Candidate(w).to
                  s2(i) == schedules[i].scheduled_at
                  e2(i) == schedules[i].scheduled_at + schedules[i].duration_minutes
              IN  /\ Detected(w) = {i \in Considered(w) : s1 < e2(i) /\ s2(i) < e1}
                  /\ \A i \in Considered(w) :
                         e2(i) = s1 \/ s2(i) = e1 => i \notin Detected(w)
                  /\ (\A i \in Considered(w) : e2(i) <= s1 \/ e1 <= s2(i))
                         => /\ ~RefusedForConflict(w)
                            /\ req'[w].pc \in {"ins_write", "rs_write"}]_vars

\* An appointment was moved to a window that ends exactly when, or starts
\* exactly when, an active appointment of the same agent starts or ends; that
\* appointment was stored before the one moved and has not changed since.
AdjacentRescheduleAccepted ==
    /\ resp.op = "reschedule"
    /\ resp.code = StatusOK
    /\ resp.body.version = resp.seen + 1
    /\ \E i \in DOMAIN schedules :
          /\ i < resp.id
          /\ schedules[i].version = 1
          /\ schedules[i].agent_id = resp.body.agent_id
          /\ \/ resp.body.scheduled_at + resp.body.duration_minutes
                    = schedules[i].scheduled_at
             \/ schedules[i].scheduled_at + schedules[i].duration_minutes
                    = resp.body.scheduled_at

\* ------------------------------------------------------------------ C15
\* C15: a conflict query counts only appointments of the agent asked for that
\* are pending or confirmed; a Create or Reschedule whose window is met only
\* by cancelled or completed appointments of the agent, or only by
\* appointments of other agents, is not refused with ScheduleConflict.
OnlyActiveOfTheAgentBlock ==
    [][\A w \in Workers :
          Checks(w) =>
              /\ \A i \in Detected(w) :
                     /\ schedules[i].status \in {"pending", "confirmed"}
                     /\ schedules[i].agent_id = Candidate(w).agent
              /\ (\A i \in Meeting(Candidate(w).from, Candidate(w).to)
                            \ {Candidate(w).self} :
                       \/ schedules[i].status \in TerminalStatuses
                       \/ schedules[i].agent_id # Candidate(w).agent)
                     => ~RefusedForConflict(w)]_vars

\* An appointment was moved into a window that a cancelled or completed
\* appointment of the same agent overlaps; that appointment was stored before
\* the one moved and has kept its window.
RescheduledOverTerminal ==
    /\ resp.op = "reschedule"
    /\ resp.code = StatusOK
    /\ resp.body.version = resp.seen + 1
    /\ \E i \in DOMAIN schedules :
          /\ i < resp.id
          /\ schedules[i].reschedule_count = 0
          /\ schedules[i].agent_id = resp.body.agent_id
          /\ schedules[i].status \in TerminalStatuses
          /\ Overlap(schedules[i], resp.body)

\* ------------------------------------------------------------------ C16
\* C16: the conflict query of a Reschedule never counts the appointment that
\* is rescheduled; a Reschedule to a window that overlaps the appointment's
\* own current window and no other active appointment of the agent is not
\* refused with ScheduleConflict and goes on to its UPDATE.
SelfIsExcluded ==
    [][\A w \in Workers :
          Checks(w) /\ req[w].op = "reschedule" =>
              /\ req[w].id \notin Detected(w)
              /\ (/\ req[w].id \in Meeting(Candidate(w).from, Candidate(w).to)
                  /\ Considered(w) \cap Meeting(Candidate(w).from, Candidate(w).to)
                         = {})
                     => /\ ~RefusedForConflict(w)
                        /\ req'[w].pc = "rs_write"]_vars

\* An appointment at 180 was moved to the window from 120 to 240, which
\* overlaps the window it had.
MovedWithinOwnWindow ==
    /\ resp.op = "reschedule"
    /\ resp.code = StatusOK
    /\ resp.event.old = 180
    /\ resp.event.new = 120
    /\ resp.body.scheduled_at = 120
    /\ resp.body.duration_minutes = 120

\* ------------------------------------------------------------------ C17
\* Worker w's INSERT stores a row in this step.
Inserts(w) == At(w, "ins_write") /\ resp'.worker = w /\ resp'.code = StatusCreated

\* C17: a Create that is accepted carries the scheduled_at and the notes of
\* its body and the duration of its body, 60 if the body names none; its
\* INSERT adds exactly one row, under a new id, with these values, status
\* pending, reschedule_count 0, version 1, original_scheduled_at and
\* last_rescheduled_at NULL, and leaves every stored row as it was; the row is
\* the body of the answer; and rows are added in no other step.
CreateStoresTheRequest ==
    [][/\ \A w \in Workers :
             Idle(w) /\ req'[w].pc = "ins_check" =>
                 \A user \in Bookers, property \in Properties, at \in TimeInputs,
                    dur \in DurationInputs, notes \in NoteInputs :
                     CreateBegin(w, user, property, at, dur, notes)
                         => /\ req'[w].schedule.user_id = user
                            /\ req'[w].schedule.property_id = property
                            /\ req'[w].schedule.scheduled_at = at
                            /\ req'[w].schedule.duration_minutes =
                                   IF dur = 0 THEN 60 ELSE dur
                            /\ req'[w].schedule.notes = notes
       /\ \A w \in Workers :
             Inserts(w) =>
                 LET s == req[w].schedule
                     new == DOMAIN schedules' \ DOMAIN schedules
                 IN  /\ new = {resp'.body.id}
                     /\ resp'.body.id > 0
                     /\ DOMAIN schedules \subseteq DOMAIN schedules'
                     /\ \A i \in DOMAIN schedules : schedules'[i] = schedules[i]
                     /\ schedules'[resp'.body.id] = resp'.body
                     /\ resp'.body.status = "pending"
                     /\ resp'.body.reschedule_count = 0
                     /\ resp'.body.version = 1
                     /\ resp'.body.original_scheduled_at = NULL
                     /\ resp'.body.last_rescheduled_at = NULL
                     /\ resp'.body.scheduled_at = s.scheduled_at
                     /\ resp'.body.duration_minutes = s.duration_minutes
                     /\ resp'.body.notes = s.notes
                     /\ resp'.body.user_id = s.user_id
                     /\ resp'.body.property_id = s.property_id
                     /\ resp'.body.agent_id = s.agent_id
       /\ DOMAIN schedules' \ DOMAIN schedules # {}
             => \E w \in Workers : Inserts(w)]_vars

\* A second appointment was created, of two hours and with a note, beside an
\* appointment that had been changed before.
CreatedBesideChanged ==
    /\ resp.op = "create"
    /\ resp.code = StatusCreated
    /\ resp.body.id = 2
    /\ schedules[2] = resp.body
    /\ resp.body.duration_minutes = 120
    /\ resp.body.notes = ShortNote
    /\ Exists(1)
    /\ schedules[1].version = 2

\* ------------------------------------------------------------------ C18
\* C18: whenever a row's scheduled_at is set, by the INSERT of a Create or the
\* UPDATE of a Reschedule, it is set to an instant strictly after the clock at
\* that moment.  The code breaks this: the handlers compare the instant with
\* the clock when they validate the request, and write later.
ScheduledAtSetInTheFuture ==
    [][\A id \in DOMAIN schedules' :
          (\/ id \notin DOMAIN schedules
           \/ schedules'[id].scheduled_at # schedules[id].scheduled_at)
              => schedules'[id].scheduled_at > now]_vars

\* ------------------------------------------------------------------ C19
\* C19: a status change (a user's cancellation, an agent's status update)
\* that is answered, at or before its conditional UPDATE, while no row has its
\* id, fails with NotFound, also when the row was deleted after the handler
\* read it; EditConflict is kept for a row that is stored under another
\* version.  The code breaks this: UpdateStatus answers EditConflict whenever
\* its UPDATE matches no row.
MissingIdGetsNotFound ==
    [][\A w \in Workers :
          (/\ Answered(w)
           /\ req[w].pc \in BeforeWrite \cup {"idle"}
           /\ resp'.op \in {"cancel", "status"}
           /\ resp'.err # "NotPermitted"
           /\ ~Exists(resp'.id))
              => resp'.err = "NotFound"]_vars

\* ------------------------------------------------------------------ C20
\* C20: a Delete of an id that is stored removes that row, whatever its status
\* and version, and leaves every other row as it was; a Delete of an id that is
\* not stored (an id below 1, an id never given, an id deleted before) fails
\* with NotFound and changes nothing; and rows leave the table in no other step.
DeleteRemovesOnlyItsRow ==
    [][/\ \A w \in Workers :
             Answered(w) /\ resp'.op = "delete" =>
                 \A id \in IdInputs :
                     Delete(w, id) =>
                         IF id >= 1 /\ id \in DOMAIN schedules
                         THEN /\ resp'.err = ""
                              /\ resp'.code = StatusOK
                              /\ DOMAIN schedules' = DOMAIN schedules \ {id}
                              /\ \A i \in DOMAIN schedules' :
                                     schedules'[i] = schedules[i]
                         ELSE /\ resp'.err = "NotFound"
                              /\ schedules' = schedules
       /\ DOMAIN schedules \ DOMAIN schedules' # {} => resp'.op = "delete"]_vars

\* The first of two appointments was deleted, the second is stored, and a
\* second Delete of the first was answered NotFound.
DeletedTwice ==
    /\ resp.op = "delete"
    /\ resp.err = "NotFound"
    /\ resp.id = 1
    /\ nextId = 3
    /\ DOMAIN schedules = {2}

\* ------------------------------------------------------------------ C21
\* The steps in which a handler runs its INSERT or its UPDATE.
WritePcs == {"ins_write", "cn_write", "ag_write", "rs_write"}
\* The steps of a handler after its UPDATE.
AfterWrite == {"ag_fetch", "rs_fetch"}
\* Worker w's handler takes a step.
Steps(w) == req'[w] # req[w]
\* Worker w's handler is cut off in this step.
Abandoned(w) == ~Idle(w) /\ req'[w] = IdleReq /\ resp' = NoResp
\* The ids whose row is added, removed or changed in this step.
Touched ==
    {i \in DOMAIN schedules \cup DOMAIN schedules' :
        \/ i \notin DOMAIN schedules
        \/ i \notin DOMAIN schedules'
        \/ schedules'[i] # schedules[i]}

\* C21: every operation writes to the table in at most one step, which adds,
\* removes or changes one row: a handler changes the table only at its INSERT
\* or UPDATE (a Delete at its DELETE), never before it and never after it; the
\* row an UPDATE leaves is the row the operation leaves when it completes
\* (every column a reschedule sets, or the status and the version of a status
\* change, the other columns as they were); and a request that is cut off or
\* answered with a failure at any step writes nothing in that step, so each
\* row is as it was before the operation or as the completed operation leaves
\* it.
OneWritePerOperation ==
    [][/\ Cardinality(Touched) <= 1
       /\ schedules' # schedules =>
              \/ resp = NoResp /\ resp'.op = "delete" /\ resp'.code = StatusOK
              \/ \E w \in Workers :
                     /\ req[w].pc \in WritePcs
                     /\ Steps(w)
                     /\ req'[w].pc \in AfterWrite \cup {"idle"}
                     /\ Touched = {IF req[w].op = "create" THEN nextId
                                   ELSE req[w].id}
       /\ \A w \in Workers :
              /\ Steps(w) /\ req[w].pc \notin WritePcs => schedules' = schedules
              /\ Steps(w) /\ req[w].pc \in AfterWrite => req'[w].pc = "idle"
              /\ Abandoned(w) => schedules' = schedules
              /\ Answered(w) /\ resp'.code \notin {StatusOK, StatusCreated}
                     => schedules' = schedules
              /\ Steps(w) /\ schedules' # schedules /\ req[w].op = "reschedule" =>
                     LET old == schedules[req[w].id]
                         new == schedules'[req[w].id]
                     IN  /\ new.scheduled_at = req[w].at
                         /\ new.duration_minutes = req[w].dur
                         /\ new.reschedule_count = old.reschedule_count + 1
                         /\ new.version = old.version + 1
                         /\ new.last_rescheduled_at = now
                         /\ new.original_scheduled_at # NULL
                         /\ \A f \in {"id", "property_id", "user_id", "agent_id",
                                       "status", "notes", "created_at"} :
                                new[f] = old[f]
              /\ Steps(w) /\ schedules' # schedules
                          /\ req[w].op \in {"cancel", "status"} =>
                     LET old == schedules[req[w].id]
                         new == schedules'[req[w].id]
                     IN  new = [old EXCEPT !.status = req[w].target,
                                           !.version = old.version + 1]]_vars

\* A reschedule has run its UPDATE and not yet answered: cut off here, it
\* leaves the row with the new time, the new duration, the count and the
\* version raised, as the completed reschedule leaves it.
RescheduleWrittenNotAnswered ==
    \E w \in Workers :
        /\ req[w].pc = "rs_fetch"
        /\ Exists(req[w].id)
        /\ schedules[req[w].id].version = req[w].schedule.version + 1
        /\ schedules[req[w].id].reschedule_count = req[w].schedule.reschedule_count + 1
        /\ schedules[req[w].id].scheduled_at = req[w].at
        /\ schedules[req[w].id].duration_minutes = req[w].dur
        /\ schedules[req[w].id].last_rescheduled_at = now

\* ------------------------------------------------------------------ C22
\* C22: the UPDATE of a reschedule writes only on a row for which the six
\* rules hold as it is overwritten: its reschedule_count is below 3, its
\* status is pending or confirmed, the new time differs from its scheduled_at,
\* the new duration is in (0, 480], and at the clock the handler validated
\* with (a reading not after the write) the new time was in the future and
\* the clock more than two hours before its scheduled_at; and the row
\* overwritten is the row the rules were evaluated on: it has the version, the
\* scheduled_at and the reschedule_count the handler read.
RulesHoldForTheRowWritten ==
    [][\A w \in Workers :
          RescheduleCommits(w) =>
              LET row == schedules[req[w].id]
              IN  /\ row.reschedule_count < 3
                  /\ row.status \in {"pending", "confirmed"}
                  /\ req[w].at # row.scheduled_at
                  /\ req[w].dur > 0 /\ req[w].dur <= 480
                  /\ \E t \in 0..now :
                         /\ req[w].at > t
                         /\ t < row.scheduled_at - 120
                  /\ row.version = req[w].schedule.version
                  /\ row.scheduled_at = req[w].schedule.scheduled_at
                  /\ row.reschedule_count = req[w].schedule.reschedule_count
                  /\ schedules'[req[w].id].version = row.version + 1]_vars

\* A reschedule committed on a row that a status change had changed before:
\* it read version 2, confirmed, and left version 3.
RescheduledAtLaterVersion ==
    /\ resp.op = "reschedule"
    /\ resp.code = StatusOK
    /\ resp.seen = 2
    /\ resp.body.version = 3
    /\ resp.body.status = "confirmed"
    /\ resp.body.reschedule_count = 1

\* ------------------------------------------------------------------ C23
\* The refusal the handler gives for a reschedule within the notice.
MinNoticeRefusal(r) ==
    /\ "reschedule" \in DOMAIN r.errors
    /\ r.errors["reschedule"] = MsgMinNotice

DurationAlwaysValidated ==
    [][/\ \A id \in DOMAIN schedules' :
             /\ schedules'[id].duration_minutes > 0
             /\ schedules'[id].duration_minutes <= 480
       /\ \A w \in Workers :
             (/\ Idle(w)
              /\ \/ req'[w].op = "create"
                 \/ resp = NoResp /\ resp'.op = "create")
                 => \A user \in Bookers, property \in Properties,
                       at \in TimeInputs, dur \in DurationInputs \cup {NULL},
                       notes \in NoteInputs :
                        CreateBegin(w, user, property, at, DecodedInt(dur), notes)
                            => /\ dur = NULL /\ ~Answered(w) =>
                                      req'[w].schedule.duration_minutes = 60
                               /\ dur # NULL /\ ~(dur > 0 /\ dur <= 480) =>
                                      /\ Answered(w)
                                      /\ resp'.err = "Validation"
                                      /\ schedules' = schedules
       /\ \A w \in Workers :
             (/\ Idle(w)
              /\ \/ req'[w].op = "reschedule"
                 \/ resp = NoResp /\ resp'.op = "reschedule")
                 => \A id \in DOMAIN schedules \cap {req'[w].id, resp'.id},
                       at \in TimeInputs, dur \in DurationInputs :
                        (/\ RescheduleBegin(w, schedules[id].user_id, id, at, dur)
                         /\ ~(dur > 0 /\ dur <= 480))
                            => /\ Answered(w)
                               /\ resp'.err = "Validation"
                               /\ schedules' = schedules]_vars

\* ------------------------------------------------------------------ C25
\* C25: no step sets the status of a stored row to pending: a row that is
\* pending after a step was pending before it, so a row that has left pending
\* (confirmed, cancelled or completed) is never pending again; a row is
\* pending only from its INSERT; and a status change that names pending is
\* refused and writes nothing.
NeverBackToPending ==
    [][/\ \A id \in DOMAIN schedules' :
             schedules'[id].status = "pending" =>
                 \/ id \notin DOMAIN schedules
                 \/ schedules[id].status = "pending"
       /\ \A w \in Workers :
             (/\ Idle(w)
              /\ \/ req'[w].op = "status"
                 \/ resp = NoResp /\ resp'.op = "status")
                 => \A user \in Principals, id \in IdInputs :
                        AgentBegin(w, user, id, "pending")
                            => /\ Answered(w)
                               /\ resp'.code # StatusOK
                               /\ schedules' = schedules]_vars

\* The agent of a confirmed appointment asked to set it pending and was
\* refused; the appointment is confirmed as before.
PendingRefusedOnConfirmed ==
    /\ resp.op = "status"
    /\ resp.err = "Validation"
    /\ resp.errors = ("status" :> MsgAgentStatus)
    /\ Exists(resp.id)
    /\ schedules[resp.id].status = "confirmed"
    /\ schedules[resp.id].version = 2

\* ------------------------------------------------------------------ C26
\* The statuses that lie ahead of a status that is not terminal.
Ahead(status) ==
    IF status = "pending" THEN {"confirmed", "cancelled", "completed"}
    ELSE IF status = "confirmed" THEN {"cancelled", "completed"}
    ELSE {}

\* C26: a status change from pending to confirmed, cancelled or completed, or
\* from confirmed to cancelled or completed, succeeds when the version
\* matches: asked by the agent of the appointment it passes the handler's
\* checks; its conditional UPDATE, meeting the row under the version read,
\* sets the status asked for and raises the version by one; and the handler
\* then answers 200 for a row that is still stored.  The same holds for the
\* owner's cancellation of a pending or confirmed appointment.
ForwardTransitionsSucceed ==
    [][\A w \in Workers :
          /\ (/\ Idle(w)
              /\ \/ req'[w].op = "status"
                 \/ resp = NoResp /\ resp'.op = "status")
                 => \A id \in DOMAIN schedules :
                    \A status \in Ahead(schedules[id].status) :
                        AgentBegin(w, schedules[id].agent_id, id, status)
                            => /\ req'[w].pc = "ag_write"
                               /\ req'[w].target = status
                               /\ req'[w].schedule.version = schedules[id].version
          /\ (/\ Steps(w)
              /\ req[w].pc \in {"ag_write", "cn_write"}
              /\ ~Abandoned(w)
              /\ Exists(req[w].id)
              /\ schedules[req[w].id].version = req[w].schedule.version
              /\ req[w].target \in Ahead(schedules[req[w].id].status))
                 => /\ schedules'[req[w].id].status = req[w].target
                    /\ schedules'[req[w].id].version = req[w].schedule.version + 1
                    /\ req[w].op = "status" => req'[w].pc = "ag_fetch"
                    /\ req[w].op = "cancel" =>
                           Answered(w) /\ resp'.code = StatusOK
          /\ (/\ Steps(w)
              /\ req[w].pc = "ag_fetch"
              /\ ~Abandoned(w)
              /\ Exists(req[w].id))
                 => /\ Answered(w)
                    /\ resp'.code = StatusOK
                    /\ resp'.body = schedules[req[w].id]]_vars

\* A pending appointment was completed by its agent without having been
\* confirmed: the status change read version 1 and answered with version 2.
CompletedFromPending ==
    /\ resp.op = "status"
    /\ resp.code = StatusOK
    /\ resp.seen = 1
    /\ resp.body.status = "completed"
    /\ resp.body.version = 2
    /\ schedules[resp.id] = resp.body

\* ------------------------------------------------------------------ C27
\* C27: the stats an agent is answered are, for each of pending, confirmed,
\* completed and cancelled, the number of stored rows of that agent with that
\* status, and a total that is the number of stored rows of that agent and
\* the sum of the four; rows of other agents are not counted; and a principal
\* who is no agent is refused.
StatsCountTheAgentsRows ==
    [][\A w \in Workers :
          resp = NoResp /\ resp'.worker = w /\ resp'.op = "stats" =>
              \A user \in Principals :
                  GetAgentScheduleStats(w, user) =>
                      LET mine == {i \in DOMAIN schedules :
                                      schedules[i].agent_id = user}
                          with(status) ==
                              {i \in mine : schedules[i].status = status}
                          stats == resp'.stats
                      IN  IF user \in {3, 4}
                          THEN /\ resp'.code = StatusOK
                               /\ stats.pending = Cardinality(with("pending"))
                               /\ stats.confirmed = Cardinality(with("confirmed"))
                               /\ stats.completed = Cardinality(with("completed"))
                               /\ stats.cancelled = Cardinality(with("cancelled"))
                               /\ stats.total = Cardinality(mine)
                               /\ stats.total = stats.pending + stats.confirmed
                                      + stats.completed + stats.cancelled
                          ELSE /\ resp'.err = "NotPermitted"
                               /\ stats = NoStats]_vars

\* An agent was answered one appointment, confirmed, while two are stored:
\* the other one is another agent's.
StatsLeaveOutOtherAgents ==
    /\ resp.op = "stats"
    /\ resp.code = StatusOK
    /\ resp.stats.total = 1
    /\ resp.stats.confirmed = 1
    /\ Cardinality(DOMAIN schedules) = 2
    /\ \E i \in DOMAIN schedules, j \in DOMAIN schedules :
          schedules[i].agent_id # schedules[j].agent_id

\* ------------------------------------------------------------------ C28
ReadOps == {"get", "agent_get", "list", "agent_list", "stats"}

\* C28: a read (get by id of the user or of the agent, list of the user or of
\* the agent, stats) changes no row, nor the id sequence, nor any request in
\* flight; a get by id answers the stored row with every column as stored,
\* the version included, and a list answers stored rows as stored; so two
\* reads of an appointment between which the table does not change answer the
\* same values.
ReadsChangeNothing ==
    [][\A w \in Workers :
          resp = NoResp /\ resp'.worker = w /\ resp'.op \in ReadOps =>
              /\ schedules' = schedules
              /\ nextId' = nextId
              /\ req' = req
              /\ resp'.op \in {"get", "agent_get"} /\ resp'.code = StatusOK =>
                     /\ Exists(resp'.id)
                     /\ resp'.body = schedules[resp'.id]
                     /\ resp'.body.version = schedules'[resp'.id].version
              /\ \A row \in resp'.list :
                     /\ Exists(row.id)
                     /\ row = schedules[row.id]]_vars

\* An appointment that was changed once was read by its owner while another
\* request on it was between its statements: the read answers version 2, as
\* stored.
ReadBetweenStatements ==
    /\ resp.op = "get"
    /\ resp.code = StatusOK
    /\ resp.body.version = 2
    /\ schedules[resp.id] = resp.body
    /\ \E w \in Workers : req[w].id = resp.id /\ req[w].pc \in WritePcs

\* ------------------------------------------------------------------ C29
\* C29: a notification is handed to the background task only in an answer of
\* success and only when the write it tells of is in the table: the row of a
\* Create is inserted in that step, the UPDATE of a reschedule has committed
\* in an earlier step of the handler; an answer of failure carries no
\* notification; the background task, however it ends, changes no row and
\* nothing of the answer but its own outcome; and a reschedule whose lookup
\* of the agent fails is answered 200 with the stored row all the same.
NotifyAfterCommitOnly ==
    [][/\ resp = NoResp /\ resp'.event # NoEvent =>
              /\ resp'.code \in {StatusOK, StatusCreated}
              /\ resp'.event.outcome = "queued"
              /\ \/ /\ resp'.op = "create"
                    /\ resp'.event.id \in DOMAIN schedules' \ DOMAIN schedules
                 \/ /\ resp'.op = "reschedule"
                    /\ req[resp'.worker].pc = "rs_fetch"
                    /\ resp'.event.id = req[resp'.worker].id
                    /\ schedules[resp'.event.id].version
                           > req[resp'.worker].schedule.version
                    /\ schedules' = schedules
       /\ resp'.code \notin {StatusOK, StatusCreated} => resp'.event = NoEvent
       /\ resp # NoResp /\ resp' # NoResp /\ resp' # resp =>
              /\ resp.event.outcome = "queued"
              /\ resp'.event.outcome \in {"sent", "failed"}
              /\ resp' = [resp EXCEPT !.event.outcome = resp'.event.outcome]
              /\ schedules' = schedules
              /\ req' = req
       /\ \A w \in Workers :
              Steps(w) /\ req[w].pc = "rs_fetch" /\ Exists(req[w].id)
                       /\ RescheduleFetch(w, NoNotes, FALSE) =>
                  /\ resp'.code = StatusOK
                  /\ resp'.body = schedules[req[w].id]
                  /\ schedules' = schedules]_vars

\* The notification of a committed reschedule failed in its background task:
\* the answer is the 200 it was and the row is stored as rescheduled.
NotificationFailedAfterReschedule ==
    /\ resp.op = "reschedule"
    /\ resp.code = StatusOK
    /\ resp.event.outcome = "failed"
    /\ resp.body.version = resp.seen + 1
    /\ schedules[resp.id] = resp.body

\* ------------------------------------------------------------------ C30
\* C30: the rescheduled event of a successful reschedule carries the
\* scheduled_at the row had before this reschedule, the new scheduled_at it
\* committed, and the reschedule count this reschedule produced (the count
\* before it plus one), also when other requests on the row run at the same
\* time.  The code breaks this: the count is read from the row fetched after
\* the UPDATE, which a later reschedule may have raised again.
EventTellsItsReschedule ==
    [][\A w \in Workers :
          (/\ Steps(w) /\ req[w].pc = "rs_fetch"
           /\ Answered(w)
           /\ resp'.event # NoEvent)
              => /\ resp'.event.type = "rescheduled"
                 /\ resp'.event.old = req[w].schedule.scheduled_at
                 /\ resp'.event.new = req[w].at
                 /\ resp'.event.count = req[w].schedule.reschedule_count + 1]_vars

\* ------------------------------------------------------------------ C31
\* The requests that change the table.
MutationOps == {"create", "cancel", "status", "reschedule", "delete"}
\* The statement worker w runs in this step is refused by the storage layer.
StorageFailed(w) ==
    \/ /\ At(w, "ins_write")
       /\ ~TableConstraints(InsertedRow(req[w].schedule, nextId, now))
    \/ /\ At(w, "rs_write")
       /\ Exists(req[w].id)
       /\ ~TableConstraints(RescheduledRow(schedules[req[w].id], req[w].at,
                                           req[w].dur,
                                           req[w].current.scheduled_at, now))

\* C31: in every schedule operation each kind of failure has its own answer:
\* a taken window and a broken rule of the schedule (the reschedule limit, a
\* status that is cancelled or completed, a time that is not in the future) are
\* answered as failed validations with field messages, a version that has
\* moved as an edit conflict, an appointment that is not stored as not found,
\* and the server error is kept for failures of the storage layer.  The code
\* breaks this: a reschedule whose row is deleted after the handler read it is
\* answered with the server error, and the owner's cancellation of a cancelled
\* or completed appointment is answered as a bad request without field
\* messages.
FailuresMapToOutcomes ==
    [][\A w \in Workers :
          Answered(w) /\ resp'.op \in MutationOps =>
              /\ resp'.err = "ServerError" => StorageFailed(w)
              /\ (/\ resp'.op = "reschedule"
                  /\ resp'.err # "NotPermitted"
                  /\ ~Exists(resp'.id))
                     => resp'.err = "NotFound"
              /\ resp'.err = "NotFound" => ~Exists(resp'.id)
              /\ resp'.err = "EditConflict" =>
                     /\ req[w].pc \in WritePcs
                     /\ ~VersionMatches(req[w].id, req[w].schedule.version)
              /\ resp'.err = "ScheduleConflict" =>
                     resp'.errors = ("scheduled_at" :> MsgBooked)
              /\ (/\ Idle(w)
                  /\ resp'.op \in {"cancel", "reschedule"}
                  /\ resp'.err \notin {"NotFound", "NotPermitted"}
                  /\ schedules[resp'.id].status \in TerminalStatuses)
                     => resp'.errors # NoErrors]_vars

StatusCommits(w) == Commits(w) /\ req[w].op \in {"cancel", "status"}

RescheduleTrackAgrees ==
    \A id \in DOMAIN schedules :
        /\ (schedules[id].reschedule_count = 0)
               <=> (schedules[id].original_scheduled_at = NULL)
        /\ (schedules[id].reschedule_count = 0)
               <=> (schedules[id].last_rescheduled_at = NULL)
        /\ schedules[id].version >= 1 + schedules[id].reschedule_count

\* An appointment made for 240 was confirmed and, an hour later, moved to
\* 180: one reschedule, both timestamps set, two commits.
RescheduledAnHourLater ==
    \E id \in DOMAIN schedules :
        /\ schedules[id].reschedule_count = 1
        /\ schedules[id].version = 3
        /\ schedules[id].original_scheduled_at = 240
        /\ schedules[id].scheduled_at = 180
        /\ schedules[id].last_rescheduled_at = 60

\* ------------------------------------------------------------------ C35
\* C35: the appointment a successful reschedule answers with is the row as
\* the caller's own UPDATE left it: its scheduled_at and duration_minutes are
\* the ones asked for, its reschedule_count the count the handler read plus
\* one, its version the version the handler sent plus one, also when other
\* requests change the row right after the UPDATE.  The code breaks this: the
\* answer is the row fetched by a later statement, with whatever has been
\* committed on it in between.
AnswerIsTheCallersWrite ==
    [][\A w \in Workers :
          (/\ Answered(w)
           /\ resp'.op = "reschedule"
           /\ resp'.code = StatusOK)
              => /\ resp'.body.id = req[w].id
                 /\ resp'.body.scheduled_at = req[w].at
                 /\ resp'.body.duration_minutes = req[w].dur
                 /\ resp'.body.reschedule_count
                        = req[w].schedule.reschedule_count + 1
                 /\ resp'.body.version = req[w].schedule.version + 1]_vars

\* ------------------------------------------------------------------ C36
\* Worker w is given a request on a stored row in this step.
Begins(w, ops) ==
    /\ Idle(w)
    /\ \/ req'[w].op \in ops
       \/ resp = NoResp /\ resp'.worker = w /\ resp'.op \in ops
\* The request worker w is given is refused for the principal, and no row
\* changes.
RefusedForThePrincipal(w) ==
    /\ Answered(w)
    /\ resp'.err = "NotPermitted"
    /\ resp'.code # StatusOK
    /\ req'[w] = IdleReq
    /\ schedules' = schedules

\* C36: ownership is settled before any write.  The UPDATE of a user's
\* reschedule or cancellation writes only on a row whose user_id is the
\* principal of the request, the UPDATE of an agent's status update only for a
\* principal of role agent on a row whose agent_id is the principal; and a
\* reschedule or cancellation asked by another user than the row's, or a
\* status update asked by a principal who is no agent or is not the row's
\* agent, is refused at the handler's first step, whatever its body, and no
\* row changes.
OwnershipBeforeWrite ==
    [][\A w \in Workers :
          /\ Commits(w) =>
                 /\ req[w].op \in {"cancel", "reschedule"} =>
                        schedules[req[w].id].user_id = req[w].user
                 /\ req[w].op = "status" =>
                        /\ req[w].user \in {3, 4}
                        /\ schedules[req[w].id].agent_id = req[w].user
          /\ Begins(w, {"cancel"}) =>
                 \A id \in DOMAIN schedules \cap {req'[w].id, resp'.id} :
                 \A user \in Principals \ {schedules[id].user_id} :
                     CancelBegin(w, user, id) => RefusedForThePrincipal(w)
          /\ Begins(w, {"reschedule"}) =>
                 \A id \in DOMAIN schedules \cap {req'[w].id, resp'.id} :
                 \A user \in Principals \ {schedules[id].user_id},
                    at \in TimeInputs, dur \in DurationInputs \cup {NULL} :
                     RescheduleBegin(w, user, id, at, dur)
                         => RefusedForThePrincipal(w)
          /\ Begins(w, {"status"}) =>
                 \A id \in DOMAIN schedules \cap {req'[w].id, resp'.id} :
                 \A user \in Principals \ ({3, 4} \cap {schedules[id].agent_id}),
                    target \in StatusInputs :
                     AgentBegin(w, user, id, target)
                         => RefusedForThePrincipal(w)]_vars

\* A user who is not the owner asked to cancel a confirmed appointment and was
\* refused; the appointment is confirmed as before.
StrangerRefusedOnConfirmed ==
    /\ resp.op = "cancel"
    /\ resp.err = "NotPermitted"
    /\ Exists(resp.id)
    /\ schedules[resp.id].user_id = 1
    /\ schedules[resp.id].status = "confirmed"
    /\ schedules[resp.id].version = 2

\* ------------------------------------------------------------------ C37
\* Worker w's request has its answer: a success, or a failure of one kind.
Outcome(w) ==
    /\ resp.worker = w
    /\ req[w].pc = "idle"
    /\ \/ resp.code \in {StatusOK, StatusCreated} /\ resp.err = ""
       \/ /\ resp.code \notin {StatusOK, StatusCreated}
          /\ resp.err \in {"Validation", "ScheduleConflict", "EditConflict",
                           "NotFound", "NotPermitted", "NotEditable",
                           "ServerError"}

\* C37: every Create, Reschedule, status change and Delete that a worker has
\* taken up is answered, with a success or with a failure of one kind,
\* whatever other requests run beside it: no request waits for another one,
\* and none is tried again.
EveryRequestIsAnswered ==
    \A w \in Workers : (req[w].pc # "idle") ~> Outcome(w)

\* Two requests on one appointment are both at their conditional UPDATE, with
\* the same version read: one of them is going to fail.
TwoWritersOfOneVersion ==
    /\ \A w \in Workers : req[w].pc \in {"cn_write", "ag_write", "rs_write"}
    /\ req[1].id = req[2].id
    /\ req[1].schedule.version = req[2].schedule.version
    /\ Exists(req[1].id)

====
